---- MODULE Spec2Model ----
(***************************************************************************)
(* FreeDrive: storage allocation and capacity tracking.                    *)
(*                                                                         *)
(* The record store (tables repos and files), the hosting provider         *)
(* (repositories, releases, release assets) and the requests in flight.    *)
(* Every request is a chain of awaits: one action per await, so that       *)
(* requests interleave exactly at the suspension points of the code.       *)
(* Sizes are whole megabytes: on these the float arithmetic of the code    *)
(* and the DECIMAL(10,2) columns of the schema are exact. Byte counts are  *)
(* kept in units of 1024 bytes, the integers of the checker being 32 bits  *)
(* wide and the file size ceiling being 2^31 bytes.                        *)
(***************************************************************************)
EXTENDS Integers, Sequences, FiniteSets, TLC

(* ------------------------------------------------------------------ *)
(* Program constants                                                   *)
(* ------------------------------------------------------------------ *)
MAX_FILE_SIZE_MB == 2048
MAX_REPO_SIZE_MB == 800
MAX_RETRIES == 3
MAX_REPOS_PER_USER == 50
SYNC_THRESHOLD_MB == 1
VALIDATE_THRESHOLD_MB == 10
DEFAULT_MAX_SIZE_MB == 800
\* releases on the one page getRepositoryStats reads
PER_PAGE == 100

\* 1024 * 1024 bytes, counted in units of 1024 bytes
BYTES_PER_MB == (1024 * 1024) \div 1024
MAX_FILE_SIZE_BYTES == MAX_FILE_SIZE_MB * BYTES_PER_MB
MAX_REPO_SIZE_BYTES == MAX_REPO_SIZE_MB * BYTES_PER_MB

(* ------------------------------------------------------------------ *)
(* Bounds of the model                                                 *)
(* ------------------------------------------------------------------ *)
\* injected failures of remote and record-store calls
MaxFaults == 1
\* release assets uploaded to the provider since Init
MaxAssets == 2
\* repositories created on the provider since Init
MaxCreated == 2
\* requests the server handles at the same time
MaxInFlight == 2
\* requests taken since Init
MaxRequests == 3
\* rows of a repos table drawn as input of the Capacity Tracker
MaxRows == 3
\* rows of a repos table drawn as input of the reconciliation
MaxReconciled == 2
\* files or file ids of one batch request
MaxBatch == 3
\* batch requests the server takes
MaxBatches == 2
\* rows of a repos table drawn as input of the Allocator
MaxAllocRows == 2

Procs == {"p1", "p2"}

\* user ids are character sequences (uuid-like: letters, digits, hyphens)
u1 == <<"a", "-", "1">>
u2 == <<"b", "-", "2">>
Users == {u1, u2}
\* the empty user id that RepoManagerService.updateRepositorySize passes
EmptyUserId == << >>

AlphaNum == {"a", "b", "c", "t", "x", "1", "2"}

\* file sizes offered to upload, in megabytes
FileSizesMb == {720, 721}
\* used sizes of the rows of a drawn repos table, in megabytes
DrawnSizesMb == {0, 80, 81}
\* cached used sizes of repositories to reconcile, around OneAssetMb
DrawnCachedMb == {74, 75, 84, 96}
\* what the provider holds for a repository to reconcile: nothing (the
\* repository is not there), one release with an asset of OneAssetMb, or one
\* release more than a page with an asset of SmallAssetMb each
ProviderKinds == {"missing", "one", "many"}
OneAssetMb == 85
SmallAssetMb == 2

\* original names: a plain one, a blank one, one made of unsafe characters
GoodName == <<"a", ".", "t">>
BlankName == <<" ">>
UnsafeName == <<"?", "*">>

AllowedMime == "text/plain"
ALLOWED_MIME_TYPES == {"text/plain", "image/png", "application/pdf"}

NoFile == [present |-> FALSE, size |-> 0, mimetype |-> "", originalname |-> << >>]

ValidFiles ==
  {[present |-> TRUE, size |-> s * BYTES_PER_MB, mimetype |-> AllowedMime,
    originalname |-> GoodName] : s \in FileSizesMb}

InvalidFiles ==
  { NoFile,
    [present |-> TRUE, size |-> MAX_FILE_SIZE_BYTES + 1, mimetype |-> AllowedMime,
     originalname |-> GoodName],
    [present |-> TRUE, size |-> BYTES_PER_MB, mimetype |-> "application/x-sh",
     originalname |-> GoodName],
    [present |-> TRUE, size |-> BYTES_PER_MB, mimetype |-> AllowedMime,
     originalname |-> BlankName],
    [present |-> TRUE, size |-> BYTES_PER_MB, mimetype |-> AllowedMime,
     originalname |-> UnsafeName] }

FileInputs == ValidFiles \cup InvalidFiles

\* a storable file whose size is not a whole number of megabytes: 1024 bytes
\* more, which the column size_mb DECIMAL(10,2) does not keep
OddSizeFile ==
  [present |-> TRUE, size |-> 720 * BYTES_PER_MB + 1, mimetype |-> "image/png",
   originalname |-> UnsafeName \o GoodName]

\* a file validateFile accepts that is larger than a repository
LargeFile ==
  [present |-> TRUE, size |-> (MAX_REPO_SIZE_MB + 1) * BYTES_PER_MB,
   mimetype |-> AllowedMime, originalname |-> GoodName]

\* a file of a type that is not allowed
RejectedFile ==
  [present |-> TRUE, size |-> BYTES_PER_MB, mimetype |-> "application/x-sh",
   originalname |-> GoodName]

VARIABLES
  repos,       \* table repos: rows in insertion order, id = position
  files,       \* table files: set of rows
  nextFileId,  \* next primary key of table files
  ghRepos,     \* provider: repositories [name, id]
  ghReleases,  \* provider: releases [id, repo]
  ghAssets,    \* provider: release assets [id, release, repo, size]
  ghNextId,    \* provider: next repository id
  ghNextRel,   \* provider: next release / asset id
  proc,        \* requests: locals and position of each request slot
  faults,      \* failures injected so far
  created,     \* repositories created on the provider since Init
  started,     \* requests taken since Init
  inFlight     \* how many requests the server handles at the same time

vars == <<repos, files, nextFileId, ghRepos, ghReleases, ghAssets, ghNextId,
          ghNextRel, proc, faults, created, started, inFlight>>

store == <<repos, files, nextFileId>>
github == <<ghRepos, ghReleases, ghAssets, ghNextId, ghNextRel, created>>

(* ------------------------------------------------------------------ *)
(* Helpers (utils/helpers.js)                                          *)
(* ------------------------------------------------------------------ *)
Max(a, b) == IF a >= b THEN a ELSE b
Min(a, b) == IF a <= b THEN a ELSE b
Abs(a) == IF a >= 0 THEN a ELSE 0 - a

RECURSIVE SumSizes(_)
SumSizes(S) ==
  IF S = {} THEN 0
  ELSE LET ids == {x.id : x \in S}
           lo == CHOOSE i \in ids : \A j \in ids : i <= j
           hi == CHOOSE i \in ids : \A j \in ids : j <= i
           mid == (lo + hi) \div 2
       IN IF lo = hi
          THEN LET x == CHOOSE y \in S : TRUE IN x.size + SumSizes(S \ {x})
          ELSE SumSizes({x \in S : x.id <= mid}) + SumSizes({x \in S : x.id > mid})

\* bytes / (1024 * 1024), as the DECIMAL(10,2) columns size_mb keep it for
\* the sizes drawn: whole megabytes, or 1024 bytes more than that
bytesToMb(bytes) == bytes \div BYTES_PER_MB

\* userId.replace(/[^a-zA-Z0-9]/g, '').substring(0, 20)
cleanUserId(userId) ==
  LET kept == SelectSeq(userId, LAMBDA c : c \in AlphaNum)
  IN SubSeq(kept, 1, Min(20, Len(kept)))

\* `user_${cleanUserId}_bucket_${bucketNumber}`
generateRepoName(userId, bucketNumber) ==
  [user |-> cleanUserId(userId), bucket |-> bucketNumber]

\* String.prototype.trim on a character sequence
RECURSIVE TrimLeft(_)
TrimLeft(s) == IF s # << >> /\ Head(s) = " " THEN TrimLeft(Tail(s)) ELSE s
RECURSIVE TrimRight(_)
TrimRight(s) ==
  IF s # << >> /\ s[Len(s)] = " " THEN TrimRight(SubSeq(s, 1, Len(s) - 1)) ELSE s
Trim(s) == TrimRight(TrimLeft(s))

UnsafeChars == {"<", ">", ":", "/", "|", "?", "*", " "}

\* runs of underscores collapse to one
RECURSIVE Collapse(_)
Collapse(s) ==
  IF Len(s) < 2 THEN s
  ELSE IF s[1] = "_" /\ s[2] = "_" THEN Collapse(Tail(s))
  ELSE <<s[1]>> \o Collapse(Tail(s))

RECURSIVE StripLeft(_)
StripLeft(s) == IF s # << >> /\ Head(s) = "_" THEN StripLeft(Tail(s)) ELSE s
RECURSIVE StripRight(_)
StripRight(s) ==
  IF s # << >> /\ s[Len(s)] = "_" THEN StripRight(SubSeq(s, 1, Len(s) - 1)) ELSE s

sanitizeFilename(filename) ==
  LET replaced == [i \in 1..Len(filename) |->
                     IF filename[i] \in UnsafeChars THEN "_" ELSE filename[i]]
      stripped == StripRight(StripLeft(Collapse(replaced)))
  IN SubSeq(stripped, 1, Min(255, Len(stripped)))

\* variant: the loop bound off by one more
retryWithBackoff_continue_inclusive(attempt, maxRetries) == attempt <= maxRetries

\* the loop of retryWithBackoff goes on after a failed attempt unless
\* attempt === maxRetries
retryWithBackoff_continue(attempt, maxRetries) == attempt < maxRetries

(* ------------------------------------------------------------------ *)
(* Record store (services/supabase.js)                                 *)
(* ------------------------------------------------------------------ *)
NoRepo == [id |-> 0, user_id |-> EmptyUserId, name |-> [user |-> << >>, bucket |-> 0],
           github_repo_id |-> 0, size_mb |-> 0, max_size_mb |-> 0,
           is_active |-> FALSE, created_at |-> 0]

\* insertion sort of rows by created_at, ascending
\* .order('created_at', { ascending: true }): the row at position k is the
\* one with k - 1 rows before it
OrderByCreated(s) ==
  LET before(i) == {j \in 1..Len(s) :
                      \/ s[j].created_at < s[i].created_at
                      \/ s[j].created_at = s[i].created_at /\ j > i}
  IN [k \in 1..Len(s) |->
        s[CHOOSE i \in 1..Len(s) : Cardinality(before(i)) = k - 1]]

\* .from('repos').select('*').eq('user_id', userId).order('created_at') [.eq('is_active', true)]
supabase_getUserRepositories(userId, activeOnly) ==
  OrderByCreated(SelectSeq(repos,
     LAMBDA r : r.user_id = userId /\ (activeOnly => r.is_active)))

\* data.find(repo => repo.size_mb + requiredSpaceMb <= repo.max_size_mb)
FindWithSpace(s, requiredSpaceMb) ==
  LET hits == {i \in 1..Len(s) : s[i].size_mb + requiredSpaceMb <= s[i].max_size_mb}
  IN IF hits = {} THEN NoRepo
     ELSE s[CHOOSE i \in hits : \A j \in hits : i <= j]

\* repos.find(repo => repo.id === repoId)
FindById(s, repoId) ==
  LET hits == {i \in 1..Len(s) : s[i].id = repoId}
  IN IF hits = {} THEN NoRepo
     ELSE s[CHOOSE i \in hits : \A j \in hits : i <= j]

\* variant: the is_active filter left out
supabase_getAvailableRepository_anyState(userId, requiredSpaceMb) ==
  FindWithSpace(supabase_getUserRepositories(userId, FALSE), requiredSpaceMb)

\* variant: the user_id filter left out
supabase_getAvailableRepository_anyUser(userId, requiredSpaceMb) ==
  FindWithSpace(OrderByCreated(SelectSeq(repos, LAMBDA r : r.is_active)),
                requiredSpaceMb)

supabase_getAvailableRepository(userId, requiredSpaceMb) ==
  FindWithSpace(supabase_getUserRepositories(userId, TRUE), requiredSpaceMb)

\* variant: the row gets the file size ceiling as its capacity
supabase_createRepository_row_fileCeiling(userId, name, githubRepoId, maxSizeMb) ==
  [id |-> Len(repos) + 1,
   user_id |-> userId,
   name |-> name,
   github_repo_id |-> githubRepoId,
   size_mb |-> 0,
   max_size_mb |-> MAX_FILE_SIZE_MB,
   is_active |-> TRUE,
   created_at |-> Len(repos) + 1]

\* the row SupabaseService.createRepository inserts
supabase_createRepository_row(userId, name, githubRepoId, maxSizeMb) ==
  [id |-> Len(repos) + 1,
   user_id |-> userId,
   name |-> name,
   github_repo_id |-> githubRepoId,
   size_mb |-> 0,
   max_size_mb |-> IF maxSizeMb # 0 THEN maxSizeMb ELSE DEFAULT_MAX_SIZE_MB,
   is_active |-> TRUE,
   created_at |-> Len(repos) + 1]

\* .from('repos').update({size_mb}).eq('id', repoId)
supabase_updateRepositorySize(repoId, sizeMb) ==
  [repos EXCEPT ![repoId] = [@ EXCEPT !.size_mb = sizeMb]]

\* variant: the row is looked up by id alone
supabase_getFileById_anyOwner(fileId, userId) ==
  {f \in files : f.id = fileId}

\* .from('files').select(...).eq('id', fileId).eq('user_id', userId).single()
supabase_getFileById(fileId, userId) ==
  {f \in files : f.id = fileId /\ f.user_id = userId}

(* ------------------------------------------------------------------ *)
(* Provider (services/github.js)                                       *)
(* ------------------------------------------------------------------ *)
github_repositoryExists(repoName) == \E g \in ghRepos : g.name = repoName

\* variant: the asset sizes are subtracted instead of added
github_totalAssetSizeMb_subtracted(repoName) ==
  0 - bytesToMb(SumSizes({a \in ghAssets : a.repo = repoName}))

\* listReleases({ owner, repo, per_page: 100 }): one page, the most recent
\* releases first
github_listReleases(repoName) ==
  LET all == {r \in ghReleases : r.repo = repoName}
  IN {r \in all : Cardinality({q \in all : q.id > r.id}) < PER_PAGE}

\* getRepositoryStats: the asset sizes of the releases it has listed
github_totalAssetSizeMb(repoName) ==
  LET listed == {r.id : r \in github_listReleases(repoName)}
  IN bytesToMb(SumSizes({a \in ghAssets : a.release \in listed}))

(* ------------------------------------------------------------------ *)
(* Allocator (services/repoManager.js)                                 *)
(* ------------------------------------------------------------------ *)
\* variant: the threshold itself already rotates
shouldRotateRepository_inclusive(repository, additionalSizeMb) ==
  LET totalSizeAfterUpload == repository.size_mb + additionalSizeMb
      maxSize == IF repository.max_size_mb # 0 THEN repository.max_size_mb
                 ELSE bytesToMb(MAX_REPO_SIZE_BYTES)
  IN 10 * totalSizeAfterUpload >= 9 * maxSize

shouldRotateRepository(repository, additionalSizeMb) ==
  LET totalSizeAfterUpload == repository.size_mb + additionalSizeMb
      maxSize == IF repository.max_size_mb # 0 THEN repository.max_size_mb
                 ELSE bytesToMb(MAX_REPO_SIZE_BYTES)
  IN \* totalSizeAfterUpload > maxSize * 0.9
     10 * totalSizeAfterUpload > 9 * maxSize

\* variant: only the id is redirected
uploadFile_redirect_idOnly(repository, newRepo) ==
  [repository EXCEPT !.id = newRepo.id]

\* repository.id = newRepo.id; repository.name = newRepo.name
uploadFile_redirect(repository, newRepo) ==
  [repository EXCEPT !.id = newRepo.id, !.name = newRepo.name]

\* the repository summary of uploadFile's return value (fileManager.js
\* 148-152), composed from the local repository object
uploadFile_summary(repository, fileSizeMb) ==
  [id |-> repository.id,
   name |-> repository.name,
   sizeAfterUpload |-> repository.size_mb + fileSizeMb]

canCreateMoreRepos(userId) ==
  Len(supabase_getUserRepositories(userId, FALSE)) < MAX_REPOS_PER_USER

(* ------------------------------------------------------------------ *)
(* Coordinator (services/fileManager.js)                               *)
(* ------------------------------------------------------------------ *)
\* variant: the content type is not checked
validateFile_anyType(file) ==
  IF ~file.present THEN "VALIDATION_ERROR"
  ELSE IF file.size > MAX_FILE_SIZE_BYTES THEN "FILE_TOO_LARGE"
  ELSE IF file.originalname = << >> \/ Trim(file.originalname) = << >>
       THEN "VALIDATION_ERROR"
  ELSE IF Len(sanitizeFilename(file.originalname)) = 0 THEN "VALIDATION_ERROR"
  ELSE "ok"

validateFile(file) ==
  IF ~file.present THEN "VALIDATION_ERROR"
  ELSE IF file.size > MAX_FILE_SIZE_BYTES THEN "FILE_TOO_LARGE"
  ELSE IF file.mimetype \notin ALLOWED_MIME_TYPES THEN "INVALID_FILE_TYPE"
  ELSE IF file.originalname = << >> \/ Trim(file.originalname) = << >>
       THEN "VALIDATION_ERROR"
  ELSE IF Len(sanitizeFilename(file.originalname)) = 0 THEN "VALIDATION_ERROR"
  ELSE "ok"

(* ------------------------------------------------------------------ *)
(* Requests                                                            *)
(* ------------------------------------------------------------------ *)
NoUpload == [releaseId |-> 0, assetId |-> 0]
NoFetched == [originalName |-> << >>, size |-> 0, sizeMb |-> 0, mimeType |-> "",
              repository |-> << >>]

\* a path segment after /api/files: a literal word, or a file id
NoPath == [word |-> "", id |-> 0]
BatchPath == [word |-> "batch", id |-> 0]
IdPath(fileId) == [word |-> "", id |-> fileId]

Idle ==
  [op |-> "none", pc |-> "idle", user |-> EmptyUserId, result |-> "none",
   file |-> NoFile, fileSizeMb |-> 0,
   repository |-> NoRepo,     \* the local `repository` of uploadFile / sync
   pick |-> 0,                \* id the Capacity Tracker answered, 0 = none
   allocated |-> 0,           \* id the Allocator returned, 0 = not yet
   rotate |-> FALSE,          \* what shouldRotateRepository answered
   bucketNumber |-> 0, attempt |-> 0, calls |-> 0, ret |-> "none",
   githubRepoId |-> 0,
   newRepos |-> {},           \* rows this request inserted into repos
   uploadResult |-> NoUpload,
   fileId |-> 0, repoId |-> 0, delta |-> 0, priorSize |-> 0,
   list |-> << >>, idx |-> 0, valid |-> {}, invalid |-> {}, synced |-> {},
   sizeDifferenceMb |-> 0, wasUpdated |-> FALSE,
   assetAnswer |-> "none",    \* how deleteReleaseAsset ended: the asset was
                              \* deleted, was "not_found" (404), or the call failed
   batch |-> << >>,           \* `files` / `fileIds` of a batch request
   item |-> 0,                \* the loop index i of the batch, counted from 1
   begun |-> << >>,           \* the items whose uploadFile / deleteFile call
                              \* was made, in the order of the calls
   successful |-> {},         \* results.successful, as item numbers
   failed |-> {},             \* results.failed, as item number and code
   success |-> FALSE,         \* the success flag of the batch results
   fetched |-> NoFetched,     \* what getFile returned
   path |-> NoPath]           \* the path segment of a DELETE request

Active(q) == proc[q].pc # "idle"

\* the code after the last await of a request runs to the response without
\* suspending, and so does a batch loop from the catch of one item to the
\* first await of the next: no other request moves while one is at "done"
\* or at the loop head "b_next"
NoneDone == \A q \in Procs : proc[q].pc \notin {"done", "b_next"}

\* request p is at the await named pc
At(p, pc) == proc[p].pc = pc /\ NoneDone

\* a request slot is free and the server takes one more request; the slots
\* are filled in order, p2 only while p1 is busy
CanStart(p) ==
  /\ NoneDone
  /\ ~Active(p)
  /\ p = "p2" => Active("p1")
  /\ Cardinality({q \in Procs : Active(q)}) < inFlight
  /\ started < MaxRequests
  /\ started' = started + 1

\* failures are injected into requests the server handles one at a time
FaultsLeft == faults < MaxFaults /\ inFlight = 1

\* a remote or record-store call returns, or fails while failures are left
CallOutcomes == IF FaultsLeft THEN {TRUE, FALSE} ELSE {TRUE}
Charge(ok) == faults' = IF ok THEN faults ELSE faults + 1

\* the request is inside the loop of uploadMultipleFiles / deleteMultipleFiles
InBatch(l) == l.item > 0

\* a throw ends the request with the error, and inside a batch it is caught
\* by the loop's catch, which pushes the item onto results.failed
\* (fileManager.js 214-221, 458-465)
Throw(l, code) ==
  IF InBatch(l)
  THEN [l EXCEPT !.pc = "b_next",
                 !.failed = @ \cup {[item |-> l.item, code |-> code]}]
  ELSE [l EXCEPT !.pc = "done", !.result = code]

\* a normal return ends the request, and inside a batch the loop pushes
\* the item onto results.successful (fileManager.js 205-207, 453-455)
Return(l) ==
  IF InBatch(l)
  THEN [l EXCEPT !.pc = "b_next", !.successful = @ \cup {l.item}]
  ELSE [l EXCEPT !.pc = "done", !.result = "ok"]
Set(p, l) == proc' = [proc EXCEPT ![p] = l]

(* ---------------- createNewRepository (repoManager.js 48-90) -------- *)

\* variant: a taken name is an error instead of a step to the next number
createNewRepository_exists_rejects(p) ==
  LET l == proc[p]
      repoName == generateRepoName(l.user, l.bucketNumber)
  IN /\ At(p, "c_exists")
     /\ \E ok \in CallOutcomes :
          /\ Charge(ok)
          /\ IF ~ok \/ github_repositoryExists(repoName)
             THEN Set(p, Throw(l, "GITHUB_API_ERROR"))
             ELSE Set(p, [l EXCEPT !.pc = "c_create", !.attempt = 0, !.calls = 0])
     /\ UNCHANGED <<store, github, started, inFlight>>

\* variant: after a taken name the same number is probed again
createNewRepository_exists_sameNumber(p) ==
  LET l == proc[p]
      repoName == generateRepoName(l.user, l.bucketNumber)
  IN /\ At(p, "c_exists")
     /\ \E ok \in CallOutcomes :
          /\ Charge(ok)
          /\ IF ~ok THEN Set(p, Throw(l, "GITHUB_API_ERROR"))
             ELSE IF github_repositoryExists(repoName)
               THEN Set(p, l)
             ELSE Set(p, [l EXCEPT !.pc = "c_create", !.attempt = 0, !.calls = 0])
     /\ UNCHANGED <<store, github, started, inFlight>>

\* const exists = await githubService.repositoryExists(repoName)
createNewRepository_exists(p) ==
  LET l == proc[p]
      repoName == generateRepoName(l.user, l.bucketNumber)
  IN /\ At(p, "c_exists")
     /\ \E ok \in CallOutcomes :
          /\ Charge(ok)
          /\ IF ~ok THEN Set(p, Throw(l, "GITHUB_API_ERROR"))
             ELSE IF github_repositoryExists(repoName)
               THEN Set(p, [l EXCEPT !.bucketNumber = @ + 1])
             ELSE Set(p, [l EXCEPT !.pc = "c_create", !.attempt = 0, !.calls = 0])
     /\ UNCHANGED <<store, github, started, inFlight>>

\* variant: the provider accepts a name it already holds
createRepositoryWithRetry_attempt_acceptsTaken(p) ==
  LET l == proc[p]
      repoName == generateRepoName(l.user, l.bucketNumber)
      taken == FALSE
      outcomes == IF taken THEN {FALSE}
                  ELSE IF l.attempt > 0 THEN {TRUE, FALSE}
                  ELSE CallOutcomes
  IN /\ At(p, "c_create")
     /\ \E ok \in outcomes :
          /\ faults' = IF ok \/ taken \/ l.attempt > 0 THEN faults ELSE faults + 1
          /\ IF ok
             THEN /\ ghRepos' = ghRepos \cup {[name |-> repoName, id |-> ghNextId]}
                  /\ ghNextId' = ghNextId + 1
                  /\ created' = created + 1
                  /\ Set(p, [l EXCEPT !.pc = "c_insert", !.calls = @ + 1,
                                      !.githubRepoId = ghNextId])
             ELSE /\ UNCHANGED <<ghRepos, ghNextId, created>>
                  /\ IF retryWithBackoff_continue(l.attempt, MAX_RETRIES)
                     THEN Set(p, [l EXCEPT !.attempt = @ + 1, !.calls = @ + 1])
                     ELSE Set(p, [Throw(l, "GITHUB_API_ERROR") EXCEPT !.calls = @ + 1])
     /\ UNCHANGED <<store, ghReleases, ghAssets, ghNextRel, started, inFlight>>

\* one attempt of createRepositoryWithRetry: the provider creates the
\* repository unless the call fails or the name is taken (it rejects duplicates);
\* first failures are counted as injected failures, repeated ones are the same outage
createRepositoryWithRetry_attempt(p) ==
  LET l == proc[p]
      repoName == generateRepoName(l.user, l.bucketNumber)
      taken == github_repositoryExists(repoName)
      outcomes == IF taken THEN {FALSE}
                  ELSE IF l.attempt > 0 THEN {TRUE, FALSE}
                  ELSE CallOutcomes
  IN /\ At(p, "c_create")
     /\ \E ok \in outcomes :
          /\ faults' = IF ok \/ taken \/ l.attempt > 0 THEN faults ELSE faults + 1
          /\ IF ok
             THEN /\ ghRepos' = ghRepos \cup {[name |-> repoName, id |-> ghNextId]}
                  /\ ghNextId' = ghNextId + 1
                  /\ created' = created + 1
                  /\ Set(p, [l EXCEPT !.pc = "c_insert", !.calls = @ + 1,
                                      !.githubRepoId = ghNextId])
             ELSE /\ UNCHANGED <<ghRepos, ghNextId, created>>
                  /\ IF retryWithBackoff_continue(l.attempt, MAX_RETRIES)
                     THEN Set(p, [l EXCEPT !.attempt = @ + 1, !.calls = @ + 1])
                     ELSE Set(p, [Throw(l, "GITHUB_API_ERROR") EXCEPT !.calls = @ + 1])
     /\ UNCHANGED <<store, ghReleases, ghAssets, ghNextRel, started, inFlight>>

\* const dbRepo = await supabaseService.createRepository(repoData), then back
\* to the caller: the Allocator's fallback, the rotation of uploadFile or POST /create
createNewRepository_insert(p) ==
  LET l == proc[p]
      row == supabase_createRepository_row(l.user,
                generateRepoName(l.user, l.bucketNumber), l.githubRepoId,
                bytesToMb(MAX_REPO_SIZE_BYTES))
      got == [l EXCEPT !.newRepos = @ \cup {row.id}]
  IN /\ At(p, "c_insert")
     /\ \E ok \in CallOutcomes :
          /\ Charge(ok)
          /\ IF ~ok
             THEN /\ Set(p, Throw(l, "DATABASE_ERROR"))
                  /\ UNCHANGED repos
             ELSE /\ repos' = Append(repos, row)
                  /\ Set(p,
                      CASE l.ret = "allocate" ->
                             LET r == shouldRotateRepository(row, l.fileSizeMb)
                             IN [got EXCEPT !.repository = row, !.allocated = row.id,
                                   !.rotate = r,
                                   !.pc = IF r THEN "u_rotate" ELSE "u_upload"]
                        [] l.ret = "rotate" ->
                             [got EXCEPT
                                !.repository = uploadFile_redirect(l.repository, row),
                                !.pc = "u_upload"]
                        [] OTHER -> Return([got EXCEPT !.repository = row]))
     /\ UNCHANGED <<files, nextFileId, github, started, inFlight>>

(* ---------------- uploadFile (fileManager.js 78-171) ---------------- *)

uploadFile_start(p, userId, file) ==
  /\ CanStart(p)
  /\ ghNextRel <= MaxAssets
  /\ created < MaxCreated
  /\ LET l == [Idle EXCEPT !.op = "upload", !.user = userId, !.file = file,
                           !.fileSizeMb = bytesToMb(file.size)]
     IN IF validateFile(file) # "ok"
        THEN Set(p, Throw(l, validateFile(file)))
        ELSE Set(p, [l EXCEPT !.pc = "u_avail"])
  /\ UNCHANGED <<store, github, faults, inFlight>>

\* variant: with a repository that needs no rotation the File record is
\* stored before the asset is uploaded
getAvailableRepository_query_storesFirst(p) ==
  LET l == proc[p]
      availableRepo == supabase_getAvailableRepository(l.user, l.fileSizeMb)
  IN /\ At(p, "u_avail")
     /\ \E ok \in CallOutcomes :
          /\ Charge(ok)
          /\ IF ~ok THEN Set(p, Throw(l, "DATABASE_ERROR"))
             ELSE IF availableRepo # NoRepo
               THEN LET r == shouldRotateRepository(availableRepo, l.fileSizeMb)
                    IN Set(p, [l EXCEPT !.repository = availableRepo,
                                        !.pick = availableRepo.id,
                                        !.allocated = availableRepo.id,
                                        !.rotate = r,
                                        !.pc = IF r THEN "u_rotate" ELSE "u_file"])
             ELSE Set(p, [l EXCEPT !.pc = "u_count"])
     /\ UNCHANGED <<store, github, started, inFlight>>

\* RepoManagerService.getAvailableRepository: the Capacity Tracker's query
\* (repoManager.js 100-108), then shouldRotateRepository (fileManager.js 96)
getAvailableRepository_query(p) ==
  LET l == proc[p]
      availableRepo == supabase_getAvailableRepository(l.user, l.fileSizeMb)
  IN /\ At(p, "u_avail")
     /\ \E ok \in CallOutcomes :
          /\ Charge(ok)
          /\ IF ~ok THEN Set(p, Throw(l, "DATABASE_ERROR"))
             ELSE IF availableRepo # NoRepo
               THEN LET r == shouldRotateRepository(availableRepo, l.fileSizeMb)
                    IN Set(p, [l EXCEPT !.repository = availableRepo,
                                        !.pick = availableRepo.id,
                                        !.allocated = availableRepo.id,
                                        !.rotate = r,
                                        !.pc = IF r THEN "u_rotate" ELSE "u_upload"])
             ELSE Set(p, [l EXCEPT !.pc = "u_count"])
     /\ UNCHANGED <<store, github, started, inFlight>>

\* const allRepos = await supabaseService.getUserRepositories(userId)
\* (repoManager.js 114-117)
getAvailableRepository_count(p) ==
  LET l == proc[p]
      allRepos == supabase_getUserRepositories(l.user, FALSE)
  IN /\ At(p, "u_count")
     /\ \E ok \in CallOutcomes :
          /\ Charge(ok)
          /\ IF ~ok THEN Set(p, Throw(l, "DATABASE_ERROR"))
             ELSE Set(p, [l EXCEPT !.bucketNumber = Len(allRepos) + 1,
                                   !.ret = "allocate", !.pc = "c_exists"])
     /\ UNCHANGED <<store, github, started, inFlight>>

\* (await supabaseService.getUserRepositories(userId)).length + 1
\* (fileManager.js 98-101)
uploadFile_rotate(p) ==
  LET l == proc[p]
      allRepos == supabase_getUserRepositories(l.user, FALSE)
  IN /\ At(p, "u_rotate")
     /\ \E ok \in CallOutcomes :
          /\ Charge(ok)
          /\ IF ~ok THEN Set(p, Throw(l, "DATABASE_ERROR"))
             ELSE Set(p, [l EXCEPT !.bucketNumber = Len(allRepos) + 1,
                                   !.ret = "rotate", !.pc = "c_exists"])
     /\ UNCHANGED <<store, github, started, inFlight>>

\* variant: the counter of the repository is raised before the provider is
\* called, and stays raised when the call fails
uploadFile_github_countsFirst(p) ==
  LET l == proc[p]
      outcomes == IF FaultsLeft THEN {"ok", "no_release", "no_asset"}
                  ELSE {"ok"}
  IN /\ At(p, "u_upload")
     /\ \E o \in outcomes :
          /\ Charge(o = "ok")
          /\ ghReleases' = IF o = "no_release" THEN ghReleases
                           ELSE ghReleases \cup
                                  {[id |-> ghNextRel, repo |-> l.repository.name]}
          /\ ghAssets' = IF o # "ok" THEN ghAssets
                         ELSE ghAssets \cup
                                {[id |-> ghNextRel, release |-> ghNextRel,
                                  repo |-> l.repository.name, size |-> l.file.size]}
          /\ ghNextRel' = IF o = "no_release" THEN ghNextRel ELSE ghNextRel + 1
          /\ IF o = "ok"
             THEN Set(p, [l EXCEPT !.pc = "u_file",
                            !.uploadResult = [releaseId |-> ghNextRel,
                                              assetId |-> ghNextRel]])
             ELSE Set(p, Throw(l, "GITHUB_API_ERROR"))
     /\ repos' = supabase_updateRepositorySize(l.repository.id,
                     repos[l.repository.id].size_mb + l.fileSizeMb)
     /\ UNCHANGED <<files, nextFileId, ghRepos, ghNextId, created, started, inFlight>>

\* githubService.uploadFile: createRelease, then uploadReleaseAsset
uploadFile_github(p) ==
  LET l == proc[p]
      outcomes == IF FaultsLeft THEN {"ok", "no_release", "no_asset"}
                  ELSE {"ok"}
  IN /\ At(p, "u_upload")
     /\ \E o \in outcomes :
          /\ Charge(o = "ok")
          /\ ghReleases' = IF o = "no_release" THEN ghReleases
                           ELSE ghReleases \cup
                                  {[id |-> ghNextRel, repo |-> l.repository.name]}
          /\ ghAssets' = IF o # "ok" THEN ghAssets
                         ELSE ghAssets \cup
                                {[id |-> ghNextRel, release |-> ghNextRel,
                                  repo |-> l.repository.name, size |-> l.file.size]}
          /\ ghNextRel' = IF o = "no_release" THEN ghNextRel ELSE ghNextRel + 1
          /\ IF o = "ok"
             THEN Set(p, [l EXCEPT !.pc = "u_file",
                            !.uploadResult = [releaseId |-> ghNextRel,
                                              assetId |-> ghNextRel]])
             ELSE Set(p, Throw(l, "GITHUB_API_ERROR"))
     /\ UNCHANGED <<store, ghRepos, ghNextId, created, started, inFlight>>

\* variant: a failed insert is compensated by deleting the uploaded asset
uploadFile_createFile_compensates(p) ==
  LET l == proc[p]
      row == [id |-> nextFileId, user_id |-> l.user, repo_id |-> l.repository.id,
              original_name |-> l.file.originalname, size_mb |-> l.fileSizeMb,
              mime_type |-> l.file.mimetype,
              gh_release_id |-> l.uploadResult.releaseId,
              gh_asset_id |-> l.uploadResult.assetId]
  IN /\ At(p, "u_file")
     /\ \E ok \in CallOutcomes :
          /\ Charge(ok)
          /\ IF ~ok
             THEN /\ Set(p, Throw(l, "DATABASE_ERROR"))
                  /\ ghAssets' = {a \in ghAssets : a.id # l.uploadResult.assetId}
                  /\ UNCHANGED <<files, nextFileId>>
             ELSE /\ files' = files \cup {row}
                  /\ nextFileId' = nextFileId + 1
                  /\ UNCHANGED ghAssets
                  /\ Set(p, [l EXCEPT !.pc = "size", !.fileId = row.id,
                                      !.repoId = l.repository.id,
                                      !.delta = l.fileSizeMb,
                                      !.priorSize = repos[l.repository.id].size_mb])
     /\ UNCHANGED <<repos, ghRepos, ghReleases, ghNextId, ghNextRel, created,
                    started, inFlight>>

\* const dbFile = await supabaseService.createFile(fileData)
uploadFile_createFile(p) ==
  LET l == proc[p]
      row == [id |-> nextFileId, user_id |-> l.user, repo_id |-> l.repository.id,
              original_name |-> l.file.originalname, size_mb |-> l.fileSizeMb,
              mime_type |-> l.file.mimetype,
              gh_release_id |-> l.uploadResult.releaseId,
              gh_asset_id |-> l.uploadResult.assetId]
  IN /\ At(p, "u_file")
     /\ \E ok \in CallOutcomes :
          /\ Charge(ok)
          /\ IF ~ok
             THEN /\ Set(p, Throw(l, "DATABASE_ERROR"))
                  /\ UNCHANGED <<files, nextFileId>>
             ELSE /\ files' = files \cup {row}
                  /\ nextFileId' = nextFileId + 1
                  /\ Set(p, [l EXCEPT !.pc = "size", !.fileId = row.id,
                                      !.repoId = l.repository.id,
                                      !.delta = l.fileSizeMb,
                                      !.priorSize = repos[l.repository.id].size_mb])
     /\ UNCHANGED <<repos, github, started, inFlight>>

(* ------- RepoManagerService.updateRepositorySize (repoManager.js 137-169) *)

\* variant: a failed counter update of an upload takes the File record back
updateRepositorySize_rollsBack(p) ==
  LET l == proc[p]
      repositories == supabase_getUserRepositories(EmptyUserId, FALSE)
      currentRepo == FindById(repositories, l.repoId)
      newSizeMb == Max(0, currentRepo.size_mb + l.delta)
      kept == IF l.delta > 0 THEN {f \in files : f.id # l.fileId} ELSE files
  IN /\ At(p, "size")
     /\ \E ok \in CallOutcomes :
          /\ Charge(ok)
          /\ IF ~ok
             THEN /\ Set(p, Throw(l, "DATABASE_ERROR"))
                  /\ files' = kept
                  /\ UNCHANGED repos
             ELSE IF currentRepo = NoRepo
             THEN /\ Set(p, Throw(l, "REPO_NOT_FOUND"))
                  /\ files' = kept
                  /\ UNCHANGED repos
             ELSE /\ repos' = supabase_updateRepositorySize(l.repoId, newSizeMb)
                  /\ UNCHANGED files
                  /\ Set(p, Return(l))
     /\ UNCHANGED <<nextFileId, github, started, inFlight>>

\* the repositories are read with getUserRepositories('', false); the row is
\* written only when repos.find gives one (the write is a second await, which
\* no request reaches: no row has the user id '')
updateRepositorySize(p) ==
  LET l == proc[p]
      repositories == supabase_getUserRepositories(EmptyUserId, FALSE)
      currentRepo == FindById(repositories, l.repoId)
      newSizeMb == Max(0, currentRepo.size_mb + l.delta)
  IN /\ At(p, "size")
     /\ \E ok \in CallOutcomes :
          /\ Charge(ok)
          /\ IF ~ok
             THEN /\ Set(p, Throw(l, "DATABASE_ERROR"))
                  /\ UNCHANGED repos
             ELSE IF currentRepo = NoRepo
             THEN /\ Set(p, Throw(l, "REPO_NOT_FOUND"))
                  /\ UNCHANGED repos
             ELSE /\ repos' = supabase_updateRepositorySize(l.repoId, newSizeMb)
                  /\ Set(p, Return(l))
     /\ UNCHANGED <<files, nextFileId, github, started, inFlight>>

(* ---------------- getFile (fileManager.js 246-285) ------------------ *)

\* the object getFile builds from the row of files joined with its repos row:
\* size is file.size_mb * 1024 * 1024
getFile_result(file) ==
  [originalName |-> file.original_name,
   size |-> file.size_mb * BYTES_PER_MB,
   sizeMb |-> file.size_mb,
   mimeType |-> file.mime_type,
   repository |-> repos[file.repo_id].name]

getFile_start(p, userId, fileId) ==
  /\ CanStart(p)
  /\ Set(p, [Idle EXCEPT !.op = "get", !.user = userId, !.fileId = fileId,
                         !.pc = "g_get"])
  /\ UNCHANGED <<store, github, faults, inFlight>>

\* const file = await supabaseService.getFileById(fileId, userId): no row
\* is an error of .single(), raised by handleError before `if (!file)`
getFile_getFileById(p) ==
  LET l == proc[p]
      rows == supabase_getFileById(l.fileId, l.user)
  IN /\ At(p, "g_get")
     /\ \E ok \in CallOutcomes :
          /\ Charge(ok)
          /\ IF ~ok THEN Set(p, Throw(l, "DATABASE_ERROR"))
             ELSE IF rows = {} THEN Set(p, Throw(l, "DATABASE_ERROR_404"))
             ELSE LET file == CHOOSE f \in rows : TRUE
                  IN Set(p, Return([l EXCEPT !.fetched = getFile_result(file)]))
     /\ UNCHANGED <<store, github, started, inFlight>>

(* ---------------- deleteFile (fileManager.js 362-422) --------------- *)

deleteFile_start(p, userId, fileId) ==
  /\ CanStart(p)
  /\ Set(p, [Idle EXCEPT !.op = "delete", !.user = userId, !.fileId = fileId,
                         !.pc = "d_get"])
  /\ UNCHANGED <<store, github, faults, inFlight>>

\* const file = await this.getFile(fileId, userId): .single() on no row is an
\* error that handleError turns into 'Record not found', DATABASE_ERROR, 404
deleteFile_getFile(p) ==
  LET l == proc[p]
      rows == supabase_getFileById(l.fileId, l.user)
  IN /\ At(p, "d_get")
     /\ \E ok \in CallOutcomes :
          /\ Charge(ok)
          /\ IF ~ok THEN Set(p, Throw(l, "DATABASE_ERROR"))
             ELSE IF rows = {} THEN Set(p, Throw(l, "DATABASE_ERROR_404"))
             ELSE Set(p, [l EXCEPT !.pc = "d_get2"])
     /\ UNCHANGED <<store, github, started, inFlight>>

\* const dbFile = await supabaseService.getFileById(fileId, userId), inside
\* the try whose catch only warns
deleteFile_getFileById(p) ==
  LET l == proc[p]
      rows == supabase_getFileById(l.fileId, l.user)
  IN /\ At(p, "d_get2")
     /\ \E ok \in CallOutcomes :
          /\ Charge(ok)
          /\ IF ~ok \/ rows = {} THEN Set(p, [l EXCEPT !.pc = "d_del"])
             ELSE LET dbFile == CHOOSE f \in rows : TRUE
                  IN IF dbFile.gh_asset_id # 0
                     THEN Set(p, [l EXCEPT !.pc = "d_asset",
                                    !.uploadResult.assetId = dbFile.gh_asset_id])
                     ELSE Set(p, [l EXCEPT !.pc = "d_del"])
     /\ UNCHANGED <<store, github, started, inFlight>>

\* variant: a failure of the asset deletion ends deleteFile with the error
deleteFile_deleteReleaseAsset_rethrows(p) ==
  LET l == proc[p]
      there == \E a \in ghAssets : a.id = l.uploadResult.assetId
  IN /\ At(p, "d_asset")
     /\ \E ok \in CallOutcomes :
          /\ Charge(ok)
          /\ ghAssets' = IF ok THEN {a \in ghAssets : a.id # l.uploadResult.assetId}
                         ELSE ghAssets
          /\ IF ok
             THEN Set(p, [l EXCEPT !.pc = "d_del",
                            !.assetAnswer = IF there THEN "deleted" ELSE "not_found"])
             ELSE Set(p, [Throw(l, "GITHUB_API_ERROR") EXCEPT !.assetAnswer = "failed"])
     /\ UNCHANGED <<store, ghRepos, ghReleases, ghNextId, ghNextRel, created, started, inFlight>>

\* await githubService.deleteReleaseAsset(dbFile.gh_asset_id): a 404 returns
\* normally, any other failure is caught by deleteFile and only warned about
deleteFile_deleteReleaseAsset(p) ==
  LET l == proc[p]
      there == \E a \in ghAssets : a.id = l.uploadResult.assetId
  IN /\ At(p, "d_asset")
     /\ \E ok \in CallOutcomes :
          /\ Charge(ok)
          /\ ghAssets' = IF ok THEN {a \in ghAssets : a.id # l.uploadResult.assetId}
                         ELSE ghAssets
          /\ Set(p, [l EXCEPT !.pc = "d_del",
                              !.assetAnswer = IF ~ok THEN "failed"
                                              ELSE IF there THEN "deleted"
                                              ELSE "not_found"])
     /\ UNCHANGED <<store, ghRepos, ghReleases, ghNextId, ghNextRel, created, started, inFlight>>

\* variant: deleting no row is not an error
deleteFile_deleteRow_missingIsOk(p) ==
  LET l == proc[p]
      rows == supabase_getFileById(l.fileId, l.user)
  IN /\ At(p, "d_del")
     /\ \E ok \in CallOutcomes :
          /\ Charge(ok)
          /\ IF ~ok
             THEN /\ Set(p, Throw(l, "DATABASE_ERROR"))
                  /\ UNCHANGED files
             ELSE IF rows = {}
             THEN /\ Set(p, Return(l))
                  /\ UNCHANGED files
             ELSE LET deletedFile == CHOOSE f \in rows : TRUE
                  IN /\ files' = files \ {deletedFile}
                     /\ IF deletedFile.repo_id # 0
                        THEN Set(p, [l EXCEPT !.pc = "size",
                                       !.repoId = deletedFile.repo_id,
                                       !.fileSizeMb = deletedFile.size_mb,
                                       !.delta = 0 - deletedFile.size_mb,
                                       !.priorSize = repos[deletedFile.repo_id].size_mb])
                        ELSE Set(p, Return(l))
     /\ UNCHANGED <<repos, nextFileId, github, started, inFlight>>

\* const deletedFile = await supabaseService.deleteFile(fileId, userId)
deleteFile_deleteRow(p) ==
  LET l == proc[p]
      rows == supabase_getFileById(l.fileId, l.user)
  IN /\ At(p, "d_del")
     /\ \E ok \in CallOutcomes :
          /\ Charge(ok)
          /\ IF ~ok
             THEN /\ Set(p, Throw(l, "DATABASE_ERROR"))
                  /\ UNCHANGED files
             ELSE IF rows = {}
             THEN /\ Set(p, Throw(l, "DATABASE_ERROR_404"))
                  /\ UNCHANGED files
             ELSE LET deletedFile == CHOOSE f \in rows : TRUE
                  IN /\ files' = files \ {deletedFile}
                     /\ IF deletedFile.repo_id # 0
                        THEN Set(p, [l EXCEPT !.pc = "size",
                                       !.repoId = deletedFile.repo_id,
                                       !.fileSizeMb = deletedFile.size_mb,
                                       !.delta = 0 - deletedFile.size_mb,
                                       !.priorSize = repos[deletedFile.repo_id].size_mb])
                        ELSE Set(p, Return(l))
     /\ UNCHANGED <<repos, nextFileId, github, started, inFlight>>

(* ------- uploadMultipleFiles, deleteMultipleFiles (fileManager.js) --- *)

\* the call this.uploadFile(files[i], userId) of the loop, up to the first
\* await of uploadFile: its locals are fresh, the file is validated
uploadMultipleFiles_item(l, i) ==
  LET file == l.batch[i]
      call == [Idle EXCEPT !.op = l.op, !.user = l.user, !.batch = l.batch,
                           !.successful = l.successful, !.failed = l.failed,
                           !.item = i, !.begun = Append(l.begun, i),
                           !.file = file, !.fileSizeMb = bytesToMb(file.size)]
  IN IF validateFile(file) # "ok"
     THEN Throw(call, validateFile(file))
     ELSE [call EXCEPT !.pc = "u_avail"]

\* the call this.deleteFile(fileIds[i], userId) of the loop, up to the first
\* await of deleteFile
deleteMultipleFiles_item(l, i) ==
  [Idle EXCEPT !.op = l.op, !.user = l.user, !.batch = l.batch,
               !.successful = l.successful, !.failed = l.failed,
               !.item = i, !.begun = Append(l.begun, i),
               !.fileId = l.batch[i], !.pc = "d_get"]

\* uploadMultipleFiles(files, userId): no files is an error, otherwise the
\* loop is entered with i = 0
uploadMultipleFiles_start(p, userId, uploads) ==
  /\ CanStart(p)
  /\ started < MaxBatches
  /\ ghNextRel <= MaxAssets
  /\ created < MaxCreated
  /\ LET l == [Idle EXCEPT !.op = "uploadMultiple", !.user = userId,
                           !.batch = uploads]
     IN IF Len(uploads) = 0
        THEN Set(p, Throw(l, "VALIDATION_ERROR"))
        ELSE Set(p, uploadMultipleFiles_item(l, 1))
  /\ UNCHANGED <<store, github, faults, inFlight>>

\* deleteMultipleFiles(fileIds, userId)
(* ------- the DELETE routes of the files router (routes/files.js) ---- *)

\* if (fileIds.length > 50)
MAX_BATCH_DELETE == 50

\* router.delete('/:id', ...) is registered before router.delete('/batch', ...)
DeleteRoutes ==
  <<[pattern |-> ":id", handler |-> "DELETE /:id"],
    [pattern |-> "batch", handler |-> "DELETE /batch"]>>

\* a parameter segment matches any one segment, a literal only itself
MatchesRoute(route, segment) ==
  route.pattern = ":id" \/ route.pattern = segment.word

\* the router runs the first registered route that matches; its handler
\* answers or throws and never calls next()
router_handler(segment) ==
  LET hits == {i \in 1..Len(DeleteRoutes) : MatchesRoute(DeleteRoutes[i], segment)}
  IN DeleteRoutes[CHOOSE i \in hits : \A j \in hits : i <= j].handler

\* req.params.id as the file id the record store is asked for: the word of a
\* literal segment is the id of no record
ParamAsId(segment) == IF segment.word = "" THEN segment.id ELSE 0

\* a DELETE request for /api/files/<segment> with body { fileIds }: the
\* handler of DELETE /:id calls deleteFile(req.params.id, req.user.id), the
\* handler of DELETE /batch checks fileIds and calls deleteMultipleFiles
files_delete(p, userId, segment, fileIds) ==
  /\ CanStart(p)
  /\ LET l == [Idle EXCEPT !.user = userId, !.path = segment, !.batch = fileIds]
     IN IF router_handler(segment) = "DELETE /:id"
        THEN Set(p, [l EXCEPT !.op = "delete", !.fileId = ParamAsId(segment),
                              !.pc = "d_get"])
        ELSE IF Len(fileIds) = 0 \/ Len(fileIds) > MAX_BATCH_DELETE
        THEN Set(p, Throw([l EXCEPT !.op = "deleteMultiple"], "VALIDATION_ERROR"))
        ELSE Set(p, deleteMultipleFiles_item([l EXCEPT !.op = "deleteMultiple"], 1))
  /\ UNCHANGED <<store, github, faults, inFlight>>

deleteMultipleFiles_start(p, userId, fileIds) ==
  /\ CanStart(p)
  /\ started < MaxBatches
  /\ LET l == [Idle EXCEPT !.op = "deleteMultiple", !.user = userId,
                           !.batch = fileIds]
     IN IF Len(fileIds) = 0
        THEN Set(p, Throw(l, "VALIDATION_ERROR"))
        ELSE Set(p, deleteMultipleFiles_item(l, 1))
  /\ UNCHANGED <<store, github, faults, inFlight>>

\* variant: the loop does not await the call it made; it goes on to the
\* next file as soon as the call is suspended
uploadMultipleFiles_loop_noAwait(p) ==
  LET l == proc[p]
  IN /\ l.op = "uploadMultiple" /\ InBatch(l) /\ l.pc # "done"
     /\ IF l.item < Len(l.batch)
        THEN Set(p, uploadMultipleFiles_item(l, l.item + 1))
        ELSE Set(p, [l EXCEPT !.pc = "done", !.result = "ok",
                              !.success = (Cardinality(l.failed) = 0)])
     /\ UNCHANGED <<store, github, faults, started, inFlight>>

\* the head of the loop of uploadMultipleFiles, reached when the awaited
\* uploadFile has returned or thrown: the next file, or the results (the
\* delay between two files holds no state and is not a step of its own)
uploadMultipleFiles_loop(p) ==
  LET l == proc[p]
  IN /\ l.op = "uploadMultiple" /\ l.pc = "b_next"
     /\ IF l.item < Len(l.batch)
        THEN Set(p, uploadMultipleFiles_item(l, l.item + 1))
        ELSE Set(p, [l EXCEPT !.pc = "done", !.result = "ok",
                              !.success = (Cardinality(l.failed) = 0)])
     /\ UNCHANGED <<store, github, faults, started, inFlight>>

\* the head of the loop of deleteMultipleFiles
deleteMultipleFiles_loop(p) ==
  LET l == proc[p]
  IN /\ l.op = "deleteMultiple" /\ l.pc = "b_next"
     /\ IF l.item < Len(l.batch)
        THEN Set(p, deleteMultipleFiles_item(l, l.item + 1))
        ELSE Set(p, [l EXCEPT !.pc = "done", !.result = "ok",
                              !.success = (Cardinality(l.failed) = 0)])
     /\ UNCHANGED <<store, github, faults, started, inFlight>>

(* ---------------- POST /create (routes/repos.js 85-147) ------------- *)

createRepo_start(p, userId) ==
  /\ CanStart(p)
  /\ created < MaxCreated
  /\ Set(p, [Idle EXCEPT !.op = "create", !.user = userId, !.pc = "r_stats"])
  /\ UNCHANGED <<store, github, faults, inFlight>>

\* const storageStats = await repoManagerService.getUserStorageStatistics(...)
createRepo_stats(p) ==
  LET l == proc[p]
  IN /\ At(p, "r_stats")
     /\ \E ok \in CallOutcomes :
          /\ Charge(ok)
          /\ IF ~ok THEN Set(p, Throw(l, "DATABASE_ERROR"))
             ELSE IF ~canCreateMoreRepos(l.user)
               THEN Set(p, Throw(l, "REPO_CREATE_FAILED"))
             ELSE Set(p, [l EXCEPT !.pc = "r_count"])
     /\ UNCHANGED <<store, github, started, inFlight>>

\* const existingRepos = await supabaseService.getUserRepositories(req.user.id)
createRepo_count(p) ==
  LET l == proc[p]
      existingRepos == supabase_getUserRepositories(l.user, FALSE)
  IN /\ At(p, "r_count")
     /\ \E ok \in CallOutcomes :
          /\ Charge(ok)
          /\ IF ~ok THEN Set(p, Throw(l, "DATABASE_ERROR"))
             ELSE Set(p, [l EXCEPT !.bucketNumber = Len(existingRepos) + 1,
                                   !.ret = "route", !.pc = "c_exists"])
     /\ UNCHANGED <<store, github, started, inFlight>>

(* ---------------- POST /:id/sync (routes/repos.js 275-349) ---------- *)

sync_start(p, userId, repoId) ==
  /\ CanStart(p)
  /\ Set(p, [Idle EXCEPT !.op = "sync", !.user = userId, !.repoId = repoId,
                         !.pc = "y_get"])
  /\ UNCHANGED <<store, github, faults, inFlight>>

sync_getRepository(p) ==
  LET l == proc[p]
      repository == FindById(supabase_getUserRepositories(l.user, FALSE), l.repoId)
  IN /\ At(p, "y_get")
     /\ \E ok \in CallOutcomes :
          /\ Charge(ok)
          /\ IF ~ok THEN Set(p, Throw(l, "DATABASE_ERROR"))
             ELSE IF repository = NoRepo THEN Set(p, Throw(l, "REPO_NOT_FOUND"))
             ELSE Set(p, [l EXCEPT !.repository = repository, !.pc = "y_stats"])
     /\ UNCHANGED <<store, github, started, inFlight>>

\* const githubStats = await githubService.getRepositoryStats(repository.name)
sync_getRepositoryStats(p) ==
  LET l == proc[p]
      totalAssetSizeMb == github_totalAssetSizeMb(l.repository.name)
      sizeDifferenceMb == Abs(l.repository.size_mb - totalAssetSizeMb)
  IN /\ At(p, "y_stats")
     /\ \E ok \in CallOutcomes :
          /\ Charge(ok)
          /\ IF ~ok \/ ~github_repositoryExists(l.repository.name)
             THEN Set(p, Throw(l, "GITHUB_API_ERROR"))
             ELSE IF sizeDifferenceMb > SYNC_THRESHOLD_MB
               THEN Set(p, [l EXCEPT !.pc = "y_update", !.delta = totalAssetSizeMb,
                              !.sizeDifferenceMb = sizeDifferenceMb,
                              !.wasUpdated = TRUE])
             ELSE Set(p, Return([l EXCEPT !.sizeDifferenceMb = sizeDifferenceMb]))
     /\ UNCHANGED <<store, github, started, inFlight>>

\* updatedRepo = await supabaseService.updateRepositorySize(repoId, totalAssetSizeMb)
sync_updateRepositorySize(p) ==
  LET l == proc[p]
  IN /\ At(p, "y_update")
     /\ \E ok \in CallOutcomes :
          /\ Charge(ok)
          /\ IF ~ok
             THEN /\ Set(p, Throw(l, "DATABASE_ERROR"))
                  /\ UNCHANGED repos
             ELSE /\ repos' = supabase_updateRepositorySize(l.repoId, l.delta)
                  /\ Set(p, Return([l EXCEPT !.repository.size_mb = l.delta]))
     /\ UNCHANGED <<files, nextFileId, github, started, inFlight>>

(* ------- validateAndSyncRepositories (repoManager.js 247-306) ------- *)

\* after the repository at idx: the next one, or the results
ValidateNext(l) ==
  IF l.idx < Len(l.list) THEN [l EXCEPT !.idx = @ + 1, !.pc = "v_exists"]
  ELSE Return(l)

validate_start(p, userId) ==
  /\ CanStart(p)
  /\ Set(p, [Idle EXCEPT !.op = "validate", !.user = userId, !.pc = "v_list"])
  /\ UNCHANGED <<store, github, faults, inFlight>>

\* const repositories = await supabaseService.getUserRepositories(userId)
validate_getRepositories(p) ==
  LET l == proc[p]
      repositories == supabase_getUserRepositories(l.user, FALSE)
  IN /\ At(p, "v_list")
     /\ \E ok \in CallOutcomes :
          /\ Charge(ok)
          /\ IF ~ok THEN Set(p, Throw(l, "DATABASE_ERROR"))
             ELSE IF repositories = << >> THEN Set(p, Return(l))
             ELSE Set(p, [l EXCEPT !.list = repositories, !.idx = 1,
                                   !.pc = "v_exists"])
     /\ UNCHANGED <<store, github, started, inFlight>>

\* const exists = await githubService.repositoryExists(repo.name)
validate_exists(p) ==
  LET l == proc[p]
      repo == l.list[l.idx]
  IN /\ At(p, "v_exists")
     /\ \E ok \in CallOutcomes :
          /\ Charge(ok)
          /\ IF ~ok \/ ~github_repositoryExists(repo.name)
             THEN Set(p, ValidateNext([l EXCEPT !.invalid = @ \cup {repo.id}]))
             ELSE Set(p, [l EXCEPT !.pc = "v_stats"])
     /\ UNCHANGED <<store, github, started, inFlight>>

\* variant: a failure of getRepositoryStats ends the whole pass
validate_getRepositoryStats_aborts(p) ==
  LET l == proc[p]
      repo == l.list[l.idx]
      totalAssetSizeMb == github_totalAssetSizeMb(repo.name)
      sizeDifferenceMb == Abs(repo.size_mb - totalAssetSizeMb)
  IN /\ At(p, "v_stats")
     /\ \E ok \in CallOutcomes :
          /\ Charge(ok)
          /\ IF ~ok \/ ~github_repositoryExists(repo.name)
             THEN Set(p, Throw(l, "GITHUB_API_ERROR"))
             ELSE IF sizeDifferenceMb > VALIDATE_THRESHOLD_MB
               THEN Set(p, [l EXCEPT !.pc = "v_update", !.delta = totalAssetSizeMb,
                              !.sizeDifferenceMb = sizeDifferenceMb])
             ELSE Set(p, ValidateNext([l EXCEPT !.valid = @ \cup {repo.id}]))
     /\ UNCHANGED <<store, github, started, inFlight>>

\* const githubStats = await githubService.getRepositoryStats(repo.name)
validate_getRepositoryStats(p) ==
  LET l == proc[p]
      repo == l.list[l.idx]
      totalAssetSizeMb == github_totalAssetSizeMb(repo.name)
      sizeDifferenceMb == Abs(repo.size_mb - totalAssetSizeMb)
  IN /\ At(p, "v_stats")
     /\ \E ok \in CallOutcomes :
          /\ Charge(ok)
          /\ IF ~ok \/ ~github_repositoryExists(repo.name)
             THEN Set(p, ValidateNext([l EXCEPT !.invalid = @ \cup {repo.id}]))
             ELSE IF sizeDifferenceMb > VALIDATE_THRESHOLD_MB
               THEN Set(p, [l EXCEPT !.pc = "v_update", !.delta = totalAssetSizeMb,
                              !.sizeDifferenceMb = sizeDifferenceMb])
             ELSE Set(p, ValidateNext([l EXCEPT !.valid = @ \cup {repo.id}]))
     /\ UNCHANGED <<store, github, started, inFlight>>

\* await supabaseService.updateRepositorySize(repo.id, githubStats.totalAssetSizeMb)
validate_updateRepositorySize(p) ==
  LET l == proc[p]
      repo == l.list[l.idx]
  IN /\ At(p, "v_update")
     /\ \E ok \in CallOutcomes :
          /\ Charge(ok)
          /\ IF ~ok
             THEN /\ Set(p, ValidateNext([l EXCEPT !.invalid = @ \cup {repo.id}]))
                  /\ UNCHANGED repos
             ELSE /\ repos' = supabase_updateRepositorySize(repo.id, l.delta)
                  /\ Set(p, ValidateNext([l EXCEPT !.synced = @ \cup {repo.id},
                                                   !.valid = @ \cup {repo.id}]))
     /\ UNCHANGED <<files, nextFileId, github, started, inFlight>>

\* the response is sent and the slot is free again
respond(p) ==
  /\ proc[p].pc = "done"
  /\ Set(p, Idle)
  /\ UNCHANGED <<store, github, faults, started, inFlight>>

(* ------------------------------------------------------------------ *)
(* Specification                                                       *)
(* ------------------------------------------------------------------ *)
Init ==
  /\ repos = << >>
  /\ files = {}
  /\ nextFileId = 1
  /\ ghRepos = {}
  /\ ghReleases = {}
  /\ ghAssets = {}
  /\ ghNextId = 1
  /\ ghNextRel = 1
  /\ proc = [p \in Procs |-> Idle]
  /\ faults = 0
  /\ created = 0
  /\ started = 0
  /\ inFlight \in 1..MaxInFlight

\* ids a request may name: the rows there are, and one that is not there
RepoIds == 1..(Len(repos) + 1)
FileIds == 1..nextFileId

Next ==
  \/ \E p \in Procs, u \in Users, f \in FileInputs : uploadFile_start(p, u, f)
  \/ \E p \in Procs : getAvailableRepository_query(p)
  \/ \E p \in Procs : getAvailableRepository_count(p)
  \/ \E p \in Procs : uploadFile_rotate(p)
  \/ \E p \in Procs : createNewRepository_exists(p)
  \/ \E p \in Procs : createRepositoryWithRetry_attempt(p)
  \/ \E p \in Procs : createNewRepository_insert(p)
  \/ \E p \in Procs : uploadFile_github(p)
  \/ \E p \in Procs : uploadFile_createFile(p)
  \/ \E p \in Procs : updateRepositorySize(p)
  \/ \E p \in Procs, u \in Users, id \in FileIds : deleteFile_start(p, u, id)
  \/ \E p \in Procs : deleteFile_getFile(p)
  \/ \E p \in Procs : deleteFile_getFileById(p)
  \/ \E p \in Procs : deleteFile_deleteReleaseAsset(p)
  \/ \E p \in Procs : deleteFile_deleteRow(p)
  \/ \E p \in Procs, u \in Users : createRepo_start(p, u)
  \/ \E p \in Procs : createRepo_stats(p)
  \/ \E p \in Procs : createRepo_count(p)
  \/ \E p \in Procs, u \in Users, id \in RepoIds : sync_start(p, u, id)
  \/ \E p \in Procs : sync_getRepository(p)
  \/ \E p \in Procs : sync_getRepositoryStats(p)
  \/ \E p \in Procs : sync_updateRepositorySize(p)
  \/ \E p \in Procs, u \in Users : validate_start(p, u)
  \/ \E p \in Procs : validate_getRepositories(p)
  \/ \E p \in Procs : validate_exists(p)
  \/ \E p \in Procs : validate_getRepositoryStats(p)
  \/ \E p \in Procs : validate_updateRepositorySize(p)
  \/ \E p \in Procs : respond(p)

Spec == Init /\ [][Next]_vars

(* ---- uploads and deletes one at a time, no reconciliation ---------- *)
InitLedger == Init /\ inFlight = 1

NextLedger ==
  \/ \E p \in Procs, u \in Users, f \in FileInputs : uploadFile_start(p, u, f)
  \/ \E p \in Procs : getAvailableRepository_query(p)
  \/ \E p \in Procs : getAvailableRepository_count(p)
  \/ \E p \in Procs : uploadFile_rotate(p)
  \/ \E p \in Procs : createNewRepository_exists(p)
  \/ \E p \in Procs : createRepositoryWithRetry_attempt(p)
  \/ \E p \in Procs : createNewRepository_insert(p)
  \/ \E p \in Procs : uploadFile_github(p)
  \/ \E p \in Procs : uploadFile_createFile(p)
  \/ \E p \in Procs : updateRepositorySize(p)
  \/ \E p \in Procs, u \in Users, id \in FileIds : deleteFile_start(p, u, id)
  \/ \E p \in Procs : deleteFile_getFile(p)
  \/ \E p \in Procs : deleteFile_getFileById(p)
  \/ \E p \in Procs : deleteFile_deleteReleaseAsset(p)
  \/ \E p \in Procs : deleteFile_deleteRow(p)
  \/ \E p \in Procs : respond(p)

SpecLedger == InitLedger /\ [][NextLedger]_vars

(* ---- an upload, then fetches of the stored files, one at a time ---- *)
RoundTripFiles == ValidFiles \cup {OddSizeFile}

NextRoundTrip ==
  \/ \E p \in Procs, u \in Users, f \in RoundTripFiles : uploadFile_start(p, u, f)
  \/ \E p \in Procs : getAvailableRepository_query(p)
  \/ \E p \in Procs : getAvailableRepository_count(p)
  \/ \E p \in Procs : uploadFile_rotate(p)
  \/ \E p \in Procs : createNewRepository_exists(p)
  \/ \E p \in Procs : createRepositoryWithRetry_attempt(p)
  \/ \E p \in Procs : createNewRepository_insert(p)
  \/ \E p \in Procs : uploadFile_github(p)
  \/ \E p \in Procs : uploadFile_createFile(p)
  \/ \E p \in Procs : updateRepositorySize(p)
  \/ \E p \in Procs, u \in Users, id \in FileIds : getFile_start(p, u, id)
  \/ \E p \in Procs : getFile_getFileById(p)
  \/ \E p \in Procs : respond(p)

SpecRoundTrip == InitLedger /\ [][NextRoundTrip]_vars

(* ---- uploads only, two requests in flight --------------------------- *)
InitRace == Init /\ inFlight = MaxInFlight

NextRace ==
  \/ \E p \in Procs, u \in Users, f \in ValidFiles : uploadFile_start(p, u, f)
  \/ \E p \in Procs : getAvailableRepository_query(p)
  \/ \E p \in Procs : getAvailableRepository_count(p)
  \/ \E p \in Procs : uploadFile_rotate(p)
  \/ \E p \in Procs : createNewRepository_exists(p)
  \/ \E p \in Procs : createRepositoryWithRetry_attempt(p)
  \/ \E p \in Procs : createNewRepository_insert(p)
  \/ \E p \in Procs : uploadFile_github(p)
  \/ \E p \in Procs : uploadFile_createFile(p)
  \/ \E p \in Procs : updateRepositorySize(p)
  \/ \E p \in Procs : respond(p)

SpecRace == InitRace /\ [][NextRace]_vars

(* ---- batches of uploads and of deletions, one request at a time ---- *)
\* the files of a batch: the storable ones and one of a type not allowed
BatchFiles == ValidFiles \cup {RejectedFile}

\* the sequences over S of length 0 to n
RECURSIVE SeqsUpTo(_, _)
SeqsUpTo(S, n) ==
  IF n = 0 THEN {<< >>}
  ELSE LET shorter == SeqsUpTo(S, n - 1)
       IN shorter \cup {Append(q, x) : q \in shorter, x \in S}

\* file ids a batch of deletions may name: the first row's, and one that
\* is not there
BatchFileIds == {1, nextFileId}

InitBatch == Init /\ inFlight = 1

NextBatch ==
  \/ \E p \in Procs, u \in Users :
       \E uploads \in SeqsUpTo(BatchFiles, MaxBatch) :
         uploadMultipleFiles_start(p, u, uploads)
  \/ \E p \in Procs : uploadMultipleFiles_loop(p)
  \/ \E p \in Procs : getAvailableRepository_query(p)
  \/ \E p \in Procs : getAvailableRepository_count(p)
  \/ \E p \in Procs : uploadFile_rotate(p)
  \/ \E p \in Procs : createNewRepository_exists(p)
  \/ \E p \in Procs : createRepositoryWithRetry_attempt(p)
  \/ \E p \in Procs : createNewRepository_insert(p)
  \/ \E p \in Procs : uploadFile_github(p)
  \/ \E p \in Procs : uploadFile_createFile(p)
  \/ \E p \in Procs : updateRepositorySize(p)
  \/ \E p \in Procs, u \in Users :
       \E fileIds \in SeqsUpTo(BatchFileIds, MaxBatch) :
         deleteMultipleFiles_start(p, u, fileIds)
  \/ \E p \in Procs : deleteMultipleFiles_loop(p)
  \/ \E p \in Procs : deleteFile_getFile(p)
  \/ \E p \in Procs : deleteFile_getFileById(p)
  \/ \E p \in Procs : deleteFile_deleteReleaseAsset(p)
  \/ \E p \in Procs : deleteFile_deleteRow(p)
  \/ \E p \in Procs : respond(p)

SpecBatch == InitBatch /\ [][NextBatch]_vars

(* ---- the Capacity Tracker's query on drawn repos tables ------------ *)
\* a row of a drawn table: any owner, active or not, any drawn size
DrawnRow(i, user, active, sizeMb, createdAt) ==
  [id |-> i, user_id |-> user, name |-> generateRepoName(user, i),
   github_repo_id |-> i, size_mb |-> sizeMb,
   max_size_mb |-> bytesToMb(MAX_REPO_SIZE_BYTES),
   is_active |-> active, created_at |-> createdAt]

\* tables of up to MaxRows rows, created in any order
InitTracker ==
  /\ \E n \in 0..MaxRows :
       \E f \in [1..n -> [user_id : Users, is_active : BOOLEAN,
                          size_mb : DrawnSizesMb]],
          perm \in Permutations(1..n) :
         repos = [i \in 1..n |->
                    DrawnRow(i, f[i].user_id, f[i].is_active, f[i].size_mb, perm[i])]
  /\ files = {}
  /\ nextFileId = 1
  /\ ghRepos = {[name |-> repos[i].name, id |-> i] : i \in 1..Len(repos)}
  /\ ghReleases = {}
  /\ ghAssets = {}
  /\ ghNextId = Len(repos) + 1
  /\ ghNextRel = 1
  /\ proc = [p \in Procs |-> Idle]
  /\ faults = 0
  /\ created = 0
  /\ started = 0
  /\ inFlight = 1

NextTracker ==
  \/ \E p \in Procs, u \in Users, f \in ValidFiles : uploadFile_start(p, u, f)
  \/ \E p \in Procs : getAvailableRepository_query(p)
  \/ \E p \in Procs : respond(p)

SpecTracker == InitTracker /\ [][NextTracker]_vars

(* ---- uploads, one at a time, on drawn repos tables ------------------ *)
AllocateFiles == ValidFiles \cup {LargeFile}

\* tables of up to MaxAllocRows rows in creation order, each repository
\* present at the provider
InitAllocate ==
  /\ \E n \in 0..MaxAllocRows :
       \E f \in [1..n -> [user_id : Users, is_active : BOOLEAN,
                          size_mb : DrawnSizesMb]] :
         repos = [i \in 1..n |->
                    DrawnRow(i, f[i].user_id, f[i].is_active, f[i].size_mb, i)]
  /\ files = {}
  /\ nextFileId = 1
  /\ ghRepos = {[name |-> repos[i].name, id |-> i] : i \in 1..Len(repos)}
  /\ ghReleases = {}
  /\ ghAssets = {}
  /\ ghNextId = Len(repos) + 1
  /\ ghNextRel = 1
  /\ proc = [p \in Procs |-> Idle]
  /\ faults = 0
  /\ created = 0
  /\ started = 0
  /\ inFlight = 1

NextAllocate ==
  \/ \E p \in Procs, u \in Users, f \in AllocateFiles : uploadFile_start(p, u, f)
  \/ \E p \in Procs : getAvailableRepository_query(p)
  \/ \E p \in Procs : getAvailableRepository_count(p)
  \/ \E p \in Procs : uploadFile_rotate(p)
  \/ \E p \in Procs : createNewRepository_exists(p)
  \/ \E p \in Procs : createRepositoryWithRetry_attempt(p)
  \/ \E p \in Procs : createNewRepository_insert(p)
  \/ \E p \in Procs : uploadFile_github(p)
  \/ \E p \in Procs : uploadFile_createFile(p)
  \/ \E p \in Procs : updateRepositorySize(p)
  \/ \E p \in Procs : respond(p)

SpecAllocate == InitAllocate /\ [][NextAllocate]_vars

(* ---- a user at the ceiling of MAX_REPOS_PER_USER repositories ------- *)
InitCeiling ==
  /\ repos = [i \in 1..MAX_REPOS_PER_USER |->
                [id |-> i, user_id |-> u1, name |-> generateRepoName(u1, i),
                 github_repo_id |-> i, size_mb |-> 0,
                 max_size_mb |-> bytesToMb(MAX_REPO_SIZE_BYTES),
                 is_active |-> TRUE, created_at |-> i]]
  /\ files = {}
  /\ nextFileId = 1
  /\ ghRepos = {[name |-> generateRepoName(u1, i), id |-> i] :
                  i \in 1..MAX_REPOS_PER_USER}
  /\ ghReleases = {}
  /\ ghAssets = {}
  /\ ghNextId = MAX_REPOS_PER_USER + 1
  /\ ghNextRel = 1
  /\ proc = [p \in Procs |-> Idle]
  /\ faults = 0
  /\ created = 0
  /\ started = 0
  /\ inFlight = 1

NextCeiling ==
  \/ \E p \in Procs, u \in Users, f \in FileInputs : uploadFile_start(p, u, f)
  \/ \E p \in Procs : getAvailableRepository_query(p)
  \/ \E p \in Procs : getAvailableRepository_count(p)
  \/ \E p \in Procs : uploadFile_rotate(p)
  \/ \E p \in Procs : createNewRepository_exists(p)
  \/ \E p \in Procs : createRepositoryWithRetry_attempt(p)
  \/ \E p \in Procs : createNewRepository_insert(p)
  \/ \E p \in Procs : uploadFile_github(p)
  \/ \E p \in Procs : uploadFile_createFile(p)
  \/ \E p \in Procs : updateRepositorySize(p)
  \/ \E p \in Procs, u \in Users : createRepo_start(p, u)
  \/ \E p \in Procs : createRepo_stats(p)
  \/ \E p \in Procs : createRepo_count(p)
  \/ \E p \in Procs : respond(p)

SpecCeiling == InitCeiling /\ [][NextCeiling]_vars

(* ---- reconciliation of drawn repositories --------------------------- *)
\* the releases the provider holds for row i of a drawn table
DrawnReleaseIds(i, kind) ==
  LET base == (i - 1) * (PER_PAGE + 1)
  IN IF kind = "missing" THEN {}
     ELSE IF kind = "one" THEN {base + 1}
     ELSE (base + 1)..(base + PER_PAGE + 1)

InitReconcile ==
  /\ \E n \in 1..MaxReconciled :
       \E f \in [1..n -> [user_id : Users, size_mb : DrawnCachedMb,
                          kind : ProviderKinds]] :
         /\ repos = [i \in 1..n |->
                       DrawnRow(i, f[i].user_id, TRUE, f[i].size_mb, i)]
         /\ ghRepos = {[name |-> generateRepoName(f[i].user_id, i), id |-> i] :
                         i \in {j \in 1..n : f[j].kind # "missing"}}
         /\ ghReleases =
              UNION {{[id |-> k, repo |-> generateRepoName(f[i].user_id, i)] :
                        k \in DrawnReleaseIds(i, f[i].kind)} : i \in 1..n}
         /\ ghAssets =
              UNION {{[id |-> k, release |-> k,
                       repo |-> generateRepoName(f[i].user_id, i),
                       size |-> BYTES_PER_MB *
                                  (IF f[i].kind = "one" THEN OneAssetMb
                                   ELSE SmallAssetMb)] :
                        k \in DrawnReleaseIds(i, f[i].kind)} : i \in 1..n}
  /\ files = {}
  /\ nextFileId = 1
  /\ ghNextId = MaxReconciled + 1
  /\ ghNextRel = MaxReconciled * (PER_PAGE + 1) + 1
  /\ proc = [p \in Procs |-> Idle]
  /\ faults = 0
  /\ created = 0
  /\ started = 0
  /\ inFlight = 1

NextReconcile ==
  \/ \E p \in Procs, u \in Users, id \in RepoIds : sync_start(p, u, id)
  \/ \E p \in Procs : sync_getRepository(p)
  \/ \E p \in Procs : sync_getRepositoryStats(p)
  \/ \E p \in Procs : sync_updateRepositorySize(p)
  \/ \E p \in Procs, u \in Users : validate_start(p, u)
  \/ \E p \in Procs : validate_getRepositories(p)
  \/ \E p \in Procs : validate_exists(p)
  \/ \E p \in Procs : validate_getRepositoryStats(p)
  \/ \E p \in Procs : validate_updateRepositorySize(p)
  \/ \E p \in Procs : respond(p)

SpecReconcile == InitReconcile /\ [][NextReconcile]_vars

(* ------------------------------------------------------------------ *)
(* Probing of repository names: POST /create against a provider that   *)
(* already holds some of the candidate names; every call returns       *)
(* ------------------------------------------------------------------ *)
\* the largest sequence number of a name the provider holds at the start
MaxNames == 3

InitProbe ==
  /\ repos = << >>
  /\ files = {}
  /\ nextFileId = 1
  /\ \E taken \in [Users -> SUBSET (1..MaxNames)] :
       ghRepos = UNION {{[name |-> generateRepoName(u, n),
                          id |-> n + (IF u = u1 THEN 0 ELSE MaxNames)] :
                           n \in taken[u]} : u \in Users}
  /\ ghReleases = {}
  /\ ghAssets = {}
  /\ ghNextId = 2 * MaxNames + 1
  /\ ghNextRel = 1
  /\ proc = [p \in Procs |-> Idle]
  /\ faults = 0
  /\ created = 0
  /\ started = 0
  /\ inFlight \in 1..MaxInFlight

\* the steps of the request in slot p
StepProbe(p) ==
  \/ createRepo_stats(p)
  \/ createRepo_count(p)
  \/ createNewRepository_exists(p)
  \/ createRepositoryWithRetry_attempt(p)
  \/ createNewRepository_insert(p)

NextProbe ==
  \/ \E p \in Procs, u \in Users : createRepo_start(p, u)
  \/ \E p \in Procs : StepProbe(p)
  \/ \E p \in Procs : respond(p)

\* every awaited call returns and the response is sent: a request that can
\* take its next step takes it
FairnessProbe ==
  \A p \in Procs : WF_vars(StepProbe(p)) /\ WF_vars(respond(p))

SpecProbe == InitProbe /\ [][NextProbe]_vars /\ FairnessProbe

(* ------------------------------------------------------------------ *)
(* DELETE requests through the files router, one at a time             *)
(* ------------------------------------------------------------------ *)
\* the segments requested: a file id, or the word batch
DeleteSegments == {BatchPath} \cup {IdPath(id) : id \in FileIds}

\* the fileIds of the body: none, one, or one more than the handler allows
DeleteBodies ==
  {<< >>, <<1>>, [i \in 1..(MAX_BATCH_DELETE + 1) |-> 1]}

NextRoute ==
  \/ \E p \in Procs, u \in Users, f \in ValidFiles : uploadFile_start(p, u, f)
  \/ \E p \in Procs : getAvailableRepository_query(p)
  \/ \E p \in Procs : getAvailableRepository_count(p)
  \/ \E p \in Procs : uploadFile_rotate(p)
  \/ \E p \in Procs : createNewRepository_exists(p)
  \/ \E p \in Procs : createRepositoryWithRetry_attempt(p)
  \/ \E p \in Procs : createNewRepository_insert(p)
  \/ \E p \in Procs : uploadFile_github(p)
  \/ \E p \in Procs : uploadFile_createFile(p)
  \/ \E p \in Procs : updateRepositorySize(p)
  \/ \E p \in Procs, u \in Users, g \in DeleteSegments, b \in DeleteBodies :
       files_delete(p, u, g, b)
  \/ \E p \in Procs : deleteFile_getFile(p)
  \/ \E p \in Procs : deleteFile_getFileById(p)
  \/ \E p \in Procs : deleteFile_deleteReleaseAsset(p)
  \/ \E p \in Procs : deleteFile_deleteRow(p)
  \/ \E p \in Procs : respond(p)

SpecRoute == InitLedger /\ [][NextRoute]_vars

(* ------------------------------------------------------------------ *)
(* Properties                                                          *)
(* ------------------------------------------------------------------ *)
Quiescent == \A p \in Procs : proc[p].pc = "idle"
RecordsOf(repoId) == {f \in files : f.repo_id = repoId}
RecordedMb(repoId) ==
  LET S == RecordsOf(repoId)
  IN SumSizes({[id |-> f.id, size |-> f.size_mb] : f \in S})
CountOf(table, userId) ==
  Cardinality({i \in 1..Len(table) : table[i].user_id = userId})
\* what the provider stores for a repository: all assets of all its releases
StoredMb(repoName) ==
  bytesToMb(SumSizes({a \in ghAssets : a.repo = repoName}))
Qualifying(userId, requiredSpaceMb) ==
  {i \in 1..Len(repos) :
     /\ repos[i].user_id = userId
     /\ repos[i].is_active
     /\ repos[i].size_mb + requiredSpaceMb <= repos[i].max_size_mb}

\* C1: in a quiescent state after uploads and deletes that ran one at a time
\* with every call succeeding and no reconciliation, the cached used size of
\* each repository is the sum of the sizes of its File records
C1_CounterMatchesRecords ==
  (Quiescent /\ faults = 0) =>
     \A i \in 1..Len(repos) : repos[i].size_mb = RecordedMb(i)

\* C2: in every reachable state, whatever the interleaving of uploads, deletes,
\* syncs and bulk validations, every cached used size is at least 0
C2_NonNegative == \A i \in 1..Len(repos) : repos[i].size_mb >= 0

\* C2 case: with two requests in flight, a delete has removed the record of a
\* file from a repository whose counter a reconciliation had raised
C2_Witness ==
  /\ inFlight = 2
  /\ \E p \in Procs :
       /\ proc[p].op = "delete" /\ proc[p].pc = "done" /\ proc[p].delta < 0
       /\ repos[proc[p].repoId].size_mb > 0

\* C3: once uploadFile has inserted the File record of a file of size s in
\* repository R, nothing else touching R and every call succeeding, R's
\* counter is its prior value plus s and uploadFile returns success
C3_UploadCountsFile ==
  \A p \in Procs :
    LET l == proc[p]
    IN (inFlight = 1 /\ faults = 0 /\ l.op = "upload" /\ l.pc = "done"
          /\ l.fileId # 0) =>
         /\ l.result = "ok"
         /\ repos[l.repoId].size_mb = l.priorSize + l.fileSizeMb

\* C4: once deleteFile has deleted the record of a file of size s in R, R's
\* counter is max(0, prior - s) and deleteFile returns success
C4_DeleteDiscountsFile ==
  \A p \in Procs :
    LET l == proc[p]
    IN (inFlight = 1 /\ faults = 0 /\ l.op = "delete" /\ l.pc = "done"
          /\ l.delta < 0) =>
         /\ l.result = "ok"
         /\ repos[l.repoId].size_mb = Max(0, l.priorSize - l.fileSizeMb)

\* C5: the Capacity Tracker answers, among the user's active repositories with
\* used + required <= max, the earliest created; none exactly when none
\* qualifies; never an inactive repository or another user's
C5_TrackerPick ==
  \A p \in Procs :
    LET l == proc[p]
        Q == Qualifying(l.user, l.fileSizeMb)
    IN (l.op = "upload" /\ l.pc \in {"u_count", "u_rotate", "u_upload"}) =>
         /\ (l.pick = 0) <=> (Q = {})
         /\ (l.pc = "u_count") <=> (l.pick = 0)
         /\ l.pick # 0 =>
              /\ l.pick \in Q
              /\ repos[l.pick].is_active
              /\ repos[l.pick].user_id = l.user
              /\ \A j \in Q : repos[l.pick].created_at <= repos[j].created_at
              /\ l.repository = repos[l.pick]

\* C5 case: the answer is a repository created after an inactive repository of
\* the same user and after another user's repository, both with room
C5_Witness ==
  \E p \in Procs :
    LET l == proc[p]
    IN /\ l.op = "upload" /\ l.pc = "u_rotate" /\ l.pick # 0
       /\ \E i, j \in 1..Len(repos) :
            /\ repos[i].user_id = l.user /\ ~repos[i].is_active
            /\ repos[i].size_mb + l.fileSizeMb <= repos[i].max_size_mb
            /\ repos[i].created_at < repos[l.pick].created_at
            /\ repos[j].user_id # l.user /\ repos[j].is_active
            /\ repos[j].size_mb + l.fileSizeMb <= repos[j].max_size_mb
            /\ repos[j].created_at < repos[l.pick].created_at
       /\ repos[l.pick].size_mb + l.fileSizeMb = repos[l.pick].max_size_mb

\* C6: the Allocator never answers "no space": it fails only when a provider
\* or store call fails, and otherwise returns a repository of the user, the
\* Tracker's pick when there is one, else a row it has just created, active,
\* of size 0 and of the configured capacity
C6_AllocatorReturns ==
  \A p \in Procs :
    LET l == proc[p]
    IN /\ (l.op = "upload" /\ l.pc \in {"u_rotate", "u_upload"}
             /\ l.ret # "rotate") =>
            /\ l.allocated # 0
            /\ l.repository.id = l.allocated
            /\ l.repository.user_id = l.user
            /\ repos[l.allocated].user_id = l.user
            /\ IF l.pick # 0 THEN l.allocated = l.pick
               ELSE /\ l.allocated \in l.newRepos
                    /\ l.repository.is_active
                    /\ l.repository.size_mb = 0
                    /\ l.repository.max_size_mb = bytesToMb(MAX_REPO_SIZE_BYTES)
       /\ (l.op = "upload" /\ l.pc = "done" /\ l.allocated = 0
             /\ validateFile(l.file) = "ok") =>
            /\ l.result \in {"DATABASE_ERROR", "GITHUB_API_ERROR"}
            /\ faults > 0 \/ l.calls > 0

\* C6 case: no repository qualified and the Allocator returned the one it created
C6_Witness ==
  \E p \in Procs :
    LET l == proc[p]
    IN /\ l.op = "upload" /\ l.pc = "u_upload" /\ l.ret = "allocate"
       /\ l.pick = 0 /\ l.allocated \in l.newRepos
       /\ \E i \in 1..Len(repos) : i # l.allocated /\ repos[i].user_id = l.user

\* C7: shouldRotate(repo, additional) is true exactly when
\* 10 * (used + additional) > 9 * max, and false at exactly 90 percent
C7_RotateThreshold ==
  \A p \in Procs :
    LET l == proc[p]
        total == l.repository.size_mb + l.fileSizeMb
    IN (l.op = "upload" /\ l.pc \in {"u_rotate", "u_upload"} /\ l.ret = "none") =>
         /\ l.rotate <=> (10 * total > 9 * l.repository.max_size_mb)
         /\ (10 * total = 9 * l.repository.max_size_mb) => ~l.rotate
         /\ l.rotate <=> (l.pc = "u_rotate")

\* C7 case: the upload brings the repository to exactly 90 percent
C7_Witness ==
  \E p \in Procs :
    LET l == proc[p]
    IN /\ l.op = "upload" /\ l.pc = "u_upload" /\ l.pick # 0 /\ ~l.rotate
       /\ 10 * (l.repository.size_mb + l.fileSizeMb) = 9 * l.repository.max_size_mb

\* C8: when the Allocator's pick R satisfies shouldRotate(R, s), uploadFile
\* creates a repository N, uploads the asset to N and persists the File record
\* with N; the file is never stored in R
C8_RotationRedirects ==
  \A p \in Procs :
    LET l == proc[p]
    IN (l.op = "upload" /\ l.allocated # 0 /\ l.rotate) =>
         /\ l.pc \in {"u_upload", "u_file", "size"} =>
              /\ l.repository.id \in l.newRepos \ {l.allocated}
              /\ l.repository.name = repos[l.repository.id].name
         /\ \A a \in ghAssets :
              a.id = l.uploadResult.assetId =>
                /\ a.repo = repos[l.repository.id].name
                /\ a.repo # repos[l.allocated].name
         /\ \A f \in files :
              f.id = l.fileId => f.repo_id \in l.newRepos \ {l.allocated}

\* C8 case: the Tracker's pick had to be rotated and the File record is in
\* the repository created for it
C8_Witness ==
  \E p \in Procs :
    LET l == proc[p]
    IN /\ l.op = "upload" /\ l.pc = "size" /\ l.rotate /\ l.pick # 0
       /\ \E f \in files : f.id = l.fileId /\ f.repo_id # l.pick
       /\ \E a \in ghAssets : a.id = l.uploadResult.assetId

\* C9: once a user has MAX_REPOS_PER_USER repositories, no operation adds one
C9_CeilingHolds ==
  [][\A u \in Users :
       CountOf(repos, u) >= MAX_REPOS_PER_USER =>
         CountOf(repos', u) = CountOf(repos, u)]_vars

C11_CollisionTakesNextNumber ==
  \A p \in Procs :
    LET l == proc[p]
        repoName == generateRepoName(l.user, l.bucketNumber)
    IN (l.pc = "done" /\ l.op \in {"upload", "create"} /\ faults = 0
          /\ l.calls > 0 /\ github_repositoryExists(repoName)
          /\ ~\E i \in l.newRepos : repos[i].name = repoName) =>
         l.result # "GITHUB_API_ERROR"

\* C12: createNewRepository steps over every sequence number whose name the
\* existence check reports, without an error, and creates the repository under
\* the first number whose name is free; the row it returns carries that name
C12_SkipsTakenNames ==
  [][\A p \in Procs :
       LET l == proc[p]
           after == proc'[p]
           repoName == generateRepoName(l.user, l.bucketNumber)
       IN /\ (l.pc = "c_exists" /\ after # l /\ faults' = faults) =>
               IF github_repositoryExists(repoName)
               THEN after.pc = "c_exists" /\ after.bucketNumber = l.bucketNumber + 1
               ELSE after.pc = "c_create" /\ after.bucketNumber = l.bucketNumber
          /\ (l.pc = "c_insert" /\ after # l /\ faults' = faults) =>
               /\ Len(repos') = Len(repos) + 1
               /\ repos'[Len(repos')].name = repoName
               /\ repos'[Len(repos')].user_id = l.user
               /\ Len(repos') \in after.newRepos
               /\ after.result \in {"none", "ok"}]_vars

\* C12 case: a repository was created under sequence number 2 or more for a
\* user who has no repository numbered 1
C12_Witness ==
  \E p \in Procs :
    LET l == proc[p]
    IN /\ l.op = "create" /\ l.pc = "done" /\ l.result = "ok"
       /\ \E i \in l.newRepos : repos[i].name.bucket >= 2
       /\ ~\E i \in 1..Len(repos) :
            repos[i].user_id = l.user /\ repos[i].name.bucket = 1

\* C13: when the provider answers the asset deletion with not-found, deleteFile
\* raises no error: the record is deleted and the repository's counter is
\* decremented as for a normal delete
C13_NotFoundStillDiscounts ==
  \A p \in Procs :
    LET l == proc[p]
    IN (faults = 0 /\ l.op = "delete" /\ l.pc = "done"
          /\ l.assetAnswer = "not_found" /\ l.delta < 0) =>
         /\ l.result = "ok"
         /\ supabase_getFileById(l.fileId, l.user) = {}
         /\ repos[l.repoId].size_mb = Max(0, l.priorSize - l.fileSizeMb)

\* C14: a failure of the asset deletion other than not-found is swallowed:
\* deleteFile goes on to delete the record, and the failure is never the error
\* deleteFile reports
C14_RemoteFailureSwallowed ==
  \A p \in Procs :
    LET l == proc[p]
    IN (l.op = "delete" /\ l.assetAnswer = "failed") =>
         /\ l.pc \in {"d_del", "size", "done"}
         /\ l.result # "GITHUB_API_ERROR"
         /\ l.pc \in {"size", "done"} =>
              \/ supabase_getFileById(l.fileId, l.user) = {}
              \/ l.result \in {"DATABASE_ERROR", "DATABASE_ERROR_404"}

\* C14 case: the asset deletion failed, the asset is still on the provider and
\* the record of the file has been deleted
C14_Witness ==
  \E p \in Procs :
    LET l == proc[p]
    IN /\ l.op = "delete" /\ l.assetAnswer = "failed" /\ l.pc = "size"
       /\ \E a \in ghAssets : a.id = l.uploadResult.assetId
       /\ supabase_getFileById(l.fileId, l.user) = {}

\* C15: deleteFile for a file that does not exist or belongs to another user
\* fails with the not-found error (status 404), deletes no release asset and
\* leaves every File record and every repository counter as they were
C15_ForeignOrMissingFile ==
  [][\A p \in Procs :
       LET l == proc[p]
           after == proc'[p]
       IN (l.op = "delete" /\ l.pc = "d_get" /\ after # l /\ faults' = faults
             /\ ~\E f \in files : f.id = l.fileId /\ f.user_id = l.user) =>
            /\ after.pc = "done"
            /\ after.result = "DATABASE_ERROR_404"
            /\ after.assetAnswer = "none"
            /\ files' = files /\ repos' = repos /\ ghAssets' = ghAssets]_vars

\* C15 case: the delete of another user's file has ended with not-found and
\* the file and its asset are still there
C15_Witness ==
  \E p \in Procs :
    LET l == proc[p]
    IN /\ l.op = "delete" /\ l.pc = "done" /\ l.result = "DATABASE_ERROR_404"
       /\ l.assetAnswer = "none"
       /\ \E f \in files :
            /\ f.id = l.fileId /\ f.user_id # l.user
            /\ \E a \in ghAssets : a.id = f.gh_asset_id

\* C16: a single-repository sync overwrites the cached used size with the
\* provider's aggregate asset size and reports wasUpdated exactly when the two
\* differ by more than 1 MB, and leaves it unchanged otherwise; after a sync
\* that ran alone the two differ by at most 1 MB
C16_SyncWithinOneMb ==
  \A p \in Procs :
    LET l == proc[p]
        stored == StoredMb(l.repository.name)
    IN (inFlight = 1 /\ l.op = "sync" /\ l.pc = "done" /\ l.result = "ok") =>
         /\ l.wasUpdated <=> (l.sizeDifferenceMb > SYNC_THRESHOLD_MB)
         /\ l.wasUpdated => repos[l.repoId].size_mb = stored
         /\ ~l.wasUpdated =>
              /\ repos[l.repoId].size_mb = l.repository.size_mb
              /\ l.sizeDifferenceMb = Abs(l.repository.size_mb - stored)
         /\ Abs(repos[l.repoId].size_mb - stored) <= SYNC_THRESHOLD_MB

\* C17: a bulk validation overwrites the cached used size of a repository that
\* exists on the provider with the provider's aggregate asset size, and lists
\* it in synced, exactly when the two differ by more than 10 MB; otherwise
\* the cached value is left unchanged
C17_BulkOverTenMb ==
  \A p \in Procs :
    LET l == proc[p]
    IN (inFlight = 1 /\ l.op = "validate" /\ l.pc = "done" /\ l.result = "ok") =>
         \A k \in 1..Len(l.list) :
           LET repo == l.list[k]
               stored == StoredMb(repo.name)
           IN (github_repositoryExists(repo.name) /\ repo.id \notin l.invalid) =>
                /\ repo.id \in l.synced <=>
                     (Abs(repo.size_mb - stored) > VALIDATE_THRESHOLD_MB)
                /\ repo.id \in l.synced => repos[repo.id].size_mb = stored
                /\ repo.id \notin l.synced => repos[repo.id].size_mb = repo.size_mb

\* C18: a failure while one repository is reconciled does not abort a bulk
\* validation: the pass ends normally, every repository of the user is in
\* exactly one of valid and invalid, and the repositories after the failing one
\* are reconciled with what getRepositoryStats reads
C18_PassSurvivesFailure ==
  \A p \in Procs :
    LET l == proc[p]
        ids == {l.list[k].id : k \in 1..Len(l.list)}
    IN /\ (l.op = "validate" /\ l.list # << >>) =>
            /\ l.pc \in {"v_exists", "v_stats", "v_update", "done"}
            /\ l.pc = "done" =>
                 /\ l.result = "ok"
                 /\ l.idx = Len(l.list)
                 /\ l.valid \cup l.invalid = ids
                 /\ l.valid \cap l.invalid = {}
                 /\ l.synced \subseteq l.valid
       /\ (inFlight = 1 /\ l.op = "validate" /\ l.pc = "done") =>
            \A k \in 1..Len(l.list) :
              l.list[k].id \in l.valid =>
                Abs(repos[l.list[k].id].size_mb
                      - github_totalAssetSizeMb(l.list[k].name))
                  <= VALIDATE_THRESHOLD_MB

\* C18 case: the first repository failed although it is on the provider, and
\* the second one was synced afterwards
C18_Witness ==
  \E p \in Procs :
    LET l == proc[p]
    IN /\ l.op = "validate" /\ l.pc = "done" /\ Len(l.list) = 2
       /\ l.list[1].id \in l.invalid
       /\ github_repositoryExists(l.list[1].name)
       /\ l.list[2].id \in l.synced

(* ------------------------------------------------------------------ *)
(* Batches                                                             *)
(* ------------------------------------------------------------------ *)
\* the items of a batch whose call has returned or thrown
EndedItems(l) == l.successful \cup {f.item : f \in l.failed}

\* C19: when uploadMultipleFiles has returned and no remote or store call
\* failed, every file of the batch was attempted exactly once, in order; a
\* file that passes validation is in successful and any other file is in
\* failed; the two counts add up to the number of files; and the success
\* flag is true exactly when failed is empty.
C19_BatchSortsFiles ==
  \A p \in Procs :
    LET l == proc[p]
        n == Len(l.batch)
    IN (l.op = "uploadMultiple" /\ l.pc = "done" /\ n > 0 /\ faults = 0) =>
         /\ l.begun = [i \in 1..n |-> i]
         /\ \A i \in 1..n :
              /\ (validateFile(l.batch[i]) = "ok") <=> (i \in l.successful)
              /\ (validateFile(l.batch[i]) # "ok") <=>
                   (\E f \in l.failed : f.item = i)
         /\ Cardinality(l.successful) + Cardinality(l.failed) = n
         /\ l.success <=> (l.failed = {})

\* C20: inside a batch of uploads or of deletions the items are begun in
\* submission order, and while item i is being processed, or has just ended,
\* every item before it has ended and no item after it was begun: at most
\* one item of the batch is in flight.
C20_OneItemAtATime ==
  \A p \in Procs :
    LET l == proc[p]
    IN (l.op \in {"uploadMultiple", "deleteMultiple"} /\ InBatch(l)) =>
         /\ l.begun = [i \in 1..l.item |-> i]
         /\ EndedItems(l) = IF l.pc \in {"b_next", "done"}
                            THEN 1..l.item
                            ELSE 1..(l.item - 1)
         /\ Len(l.begun) - Cardinality(EndedItems(l)) <= 1

\* the second file of a batch is at the provider upload after every step of
\* the first file has run, to the counter update that threw
C20_Witness ==
  \E p \in Procs :
    LET l == proc[p]
    IN /\ l.op = "uploadMultiple" /\ l.item = 2 /\ l.pc = "u_upload"
       /\ Len(l.batch) = 3
       /\ \E f \in l.failed : f.item = 1 /\ f.code = "REPO_NOT_FOUND"

(* ------------------------------------------------------------------ *)
(* Round trip and failure semantics of uploadFile                      *)
(* ------------------------------------------------------------------ *)
\* C21: once uploadFile has stored a file (asset at the provider, record in
\* files), fetching it by its id as the same user returns the original
\* filename, the size and the content type given at upload, and the
\* repository that holds the asset, also after a rotation.
C21_RoundTrip ==
  \A p \in Procs :
    LET l == proc[p]
    IN (inFlight = 1 /\ l.op = "upload" /\ l.pc \in {"size", "done"}
        /\ l.fileId # 0) =>
         \A f \in supabase_getFileById(l.fileId, l.user) :
           LET got == getFile_result(f)
           IN /\ got.originalName = l.file.originalname
              /\ got.size = l.file.size
              /\ got.mimeType = l.file.mimetype
              /\ \A a \in ghAssets :
                   a.id = l.uploadResult.assetId => got.repository = a.repo

\* the awaits of uploadFile up to and including the provider upload
StepsToUpload ==
  {"u_avail", "u_count", "u_rotate", "c_exists", "c_create", "c_insert", "u_upload"}

\* the cached sizes of the rows of repos, by id
Counters == [i \in DOMAIN repos |-> repos[i].size_mb]

\* C22: no step of uploadFile up to and including the provider upload
\* (validation, allocation, rotation, upload), whether it succeeds or fails,
\* creates a File record or changes the counter of a repository; so a call
\* that fails there has created no record and changed no counter.
C22_NoRecordBeforeStore ==
  [][\A p \in Procs :
       (/\ proc'[p] # proc[p]
        /\ proc'[p].op = "upload"
        /\ proc[p].pc \in StepsToUpload \cup {"idle"})
       => /\ files' = files
          /\ \A i \in DOMAIN repos : Counters'[i] = Counters[i]
          /\ proc'[p].pc = "done" => proc'[p].fileId = 0]_vars

\* the provider upload of a call failed, after a repository was allocated
C22_Witness ==
  \E p \in Procs :
    LET l == proc[p]
    IN /\ l.op = "upload" /\ l.pc = "done" /\ l.result = "GITHUB_API_ERROR"
       /\ l.allocated # 0 /\ l.uploadResult = NoUpload
       /\ l.fileId = 0 /\ files = {}

\* C23: when the insert of the File record fails after the provider upload
\* succeeded, uploadFile ends with an error, the uploaded asset stays at the
\* provider (nothing deletes it), no File record is created and no counter
\* changes.
C23_InsertFailureLeavesAsset ==
  [][\A p \in Procs :
       (/\ proc[p].op = "upload" /\ proc[p].pc = "u_file"
        /\ proc'[p].pc = "done")
       => /\ proc'[p].result = "DATABASE_ERROR"
          /\ ghAssets' = ghAssets
          /\ \E a \in ghAssets' : a.id = proc[p].uploadResult.assetId
          /\ files' = files
          /\ \A f \in files' : f.gh_asset_id # proc[p].uploadResult.assetId
          /\ proc'[p].fileId = 0
          /\ Counters' = Counters]_vars

\* the insert failed and the asset is at the provider with no record
C23_Witness ==
  \E p \in Procs :
    LET l == proc[p]
    IN /\ l.op = "upload" /\ l.pc = "done" /\ l.result = "DATABASE_ERROR"
       /\ l.uploadResult.assetId # 0
       /\ \E a \in ghAssets : a.id = l.uploadResult.assetId
       /\ \A f \in files : f.gh_asset_id # l.uploadResult.assetId

\* C24: when the counter update of an upload fails after the provider upload
\* and the insert of the File record, uploadFile ends with an error and the
\* step undoes nothing: the assets, the File records and the counters are
\* as before. A counter changes only in a step of a reconciliation.
C24_CounterFailureUndoesNothing ==
  [][/\ \A p \in Procs :
         (/\ proc[p].op = "upload" /\ proc[p].pc = "size"
          /\ proc'[p].pc = "done" /\ proc'[p].result # "ok")
         => /\ files' = files
            /\ ghAssets' = ghAssets
            /\ Counters' = Counters
     /\ (\E i \in DOMAIN repos : Counters'[i] # Counters[i])
         => \E q \in Procs : /\ proc[q].op \in {"sync", "validate"}
                             /\ proc'[q] # proc[q]]_vars

\* the counter update of an upload failed: the asset and the File record are
\* there and the counter has the value it had before the upload
C24_Witness ==
  \E p \in Procs :
    LET l == proc[p]
    IN /\ l.op = "upload" /\ l.pc = "done"
       /\ l.result \in {"REPO_NOT_FOUND", "DATABASE_ERROR"}
       /\ l.fileId # 0
       /\ \E f \in files : f.id = l.fileId /\ f.repo_id = l.repoId
       /\ \E a \in ghAssets : a.id = l.uploadResult.assetId
       /\ repos[l.repoId].size_mb = l.priorSize

\* the codes of the errors validateFile throws
ValidationCodes == {"VALIDATION_ERROR", "FILE_TOO_LARGE", "INVALID_FILE_TYPE"}

\* C25: an upload of no file, of a file above the maximum size, of a content
\* type outside the allow-list or of a filename that is empty after
\* sanitization ends at once with a validation error: the step that takes
\* the request changes neither the record store nor the provider, and the
\* request is never at a provider call or a record-store call.
C25_ValidationFailsFast ==
  [][\A p \in Procs :
       (proc'[p].op = "upload" /\ proc'[p].file \in InvalidFiles)
       => /\ proc'[p].pc = "done"
          /\ proc'[p].result \in ValidationCodes
          /\ proc[p].pc \in {"idle", "done"}
          /\ proc[p].pc = "idle" =>
               UNCHANGED <<repos, files, nextFileId, ghRepos, ghReleases,
                           ghAssets, ghNextId, ghNextRel>>]_vars

\* a file of a type outside the allow-list was rejected while the user has a
\* repository it could have gone to
C25_Witness ==
  \E p \in Procs :
    LET l == proc[p]
    IN /\ l.op = "upload" /\ l.pc = "done" /\ l.result = "INVALID_FILE_TYPE"
       /\ l.file.present /\ l.file.mimetype \notin ALLOWED_MIME_TYPES
       /\ \E i \in DOMAIN repos : repos[i].user_id = l.user
       /\ l.allocated = 0 /\ l.uploadResult = NoUpload

\* an upload is between its File record and its counter update for repoId
UpdatePending(repoId) ==
  \E p \in Procs :
    proc[p].op = "upload" /\ proc[p].pc = "size" /\ proc[p].repoId = repoId

\* C26: the counter update of an upload reads the counter and writes it
\* raised by the size of the file, with no lock in between. So when two
\* uploads, of sizes a and b, have stored their files in the same new
\* repository and both updates are over, the counter is a + b, or, when the
\* two updates interleaved and one was lost, a or b.
C26_RaceKeepsAnUpdate ==
  \A i \in DOMAIN repos :
    (Cardinality(RecordsOf(i)) = 2 /\ ~UpdatePending(i)) =>
       repos[i].size_mb \in {f.size_mb : f \in RecordsOf(i)} \cup {RecordedMb(i)}

(* ------------------------------------------------------------------ *)
(* Allocation                                                          *)
(* ------------------------------------------------------------------ *)
\* the active repositories of the user that take the file without passing
\* 90% of their maximum size
UnderThreshold(userId, fileSizeMb) ==
  {i \in 1..Len(repos) :
     /\ repos[i].user_id = userId
     /\ repos[i].is_active
     /\ 10 * (repos[i].size_mb + fileSizeMb) <= 9 * repos[i].max_size_mb}

\* C27: uploadFile creates a repository (at the provider or as a row of
\* repos) only when no active repository of the user takes the file without
\* passing 90% of its maximum size.
C27_CreatesOnlyWhenNoRoom ==
  [][\A p \in Procs :
       (/\ proc[p].op = "upload"
        /\ proc'[p] # proc[p]
        /\ ghRepos' # ghRepos \/ Len(repos') # Len(repos))
       => UnderThreshold(proc[p].user, proc[p].fileSizeMb) = {}]_vars

\* C28: one uploadFile call inserts at most one row into repos, whatever the
\* size of the file and the repositories of the user.
C28_AtMostOneCreated ==
  \A p \in Procs :
    proc[p].op = "upload" => Cardinality(proc[p].newRepos) <= 1

\* C29: with requests handled one at a time, the repository uploadFile puts
\* the asset in has room for it: when the provider upload succeeds, cached
\* used size + file size <= maximum size for that repository.
C29_ChosenHasRoom ==
  [][\A p \in Procs :
       (/\ proc[p].op = "upload"
        /\ proc[p].pc = "u_upload" /\ proc'[p].pc = "u_file")
       => LET chosen == repos[proc[p].repository.id]
          IN chosen.size_mb + proc[p].fileSizeMb <= chosen.max_size_mb]_vars

\* C30: an uploadFile call that fails before its asset is at the provider
\* (validation, allocation, rotation, provider upload) leaves no repository
\* behind: it has inserted no row into repos and created no repository at
\* the provider.
C30_FailureLeavesNoRepository ==
  \A p \in Procs :
    LET l == proc[p]
    IN (l.op = "upload" /\ l.pc = "done" /\ l.result # "ok"
        /\ l.uploadResult = NoUpload) =>
         /\ l.newRepos = {}
         /\ \A g \in ghRepos : g.id # l.githubRepoId

(* ------------------------------------------------------------------ *)
(* Order of the steps of uploadFile                                    *)
(* ------------------------------------------------------------------ *)
\* the place of a request of uploadFile in the sequence validation,
\* allocation, rotation, provider upload, insert of the record, counter update
StepOf(l) ==
  CASE l.pc = "idle" -> 0
    [] l.pc = "u_avail" -> 1
    [] l.pc = "u_count" -> 2
    [] l.pc \in {"c_exists", "c_create", "c_insert"} /\ l.ret = "allocate" -> 3
    [] l.pc = "u_rotate" -> 4
    [] l.pc \in {"c_exists", "c_create", "c_insert"} /\ l.ret = "rotate" -> 5
    [] l.pc = "u_upload" -> 6
    [] l.pc = "u_file" -> 7
    [] l.pc = "size" -> 8
    [] OTHER -> 9

\* C31: the steps of one uploadFile call go forward only, through
\* validation, allocation, rotation, provider upload, insert of the File
\* record and counter update; the File record is inserted only by the step
\* after the provider upload, with the asset id the upload returned, and the
\* counter update is reached only from that insert, with the record's id.
C31_FixedOrder ==
  [][\A p \in Procs :
       (proc'[p].op = "upload" /\ proc'[p] # proc[p])
       => /\ StepOf(proc[p]) <= StepOf(proc'[p])
          /\ files' # files =>
               /\ proc[p].pc = "u_file"
               /\ proc[p].uploadResult.assetId # 0
               /\ \A f \in files' \ files :
                    f.gh_asset_id = proc[p].uploadResult.assetId
          /\ proc'[p].pc = "size" =>
               /\ proc[p].pc = "u_file"
               /\ \E f \in files' : f.id = proc'[p].fileId
          /\ proc'[p].pc = "u_file" => proc[p].pc = "u_upload"
          /\ proc'[p].pc = "u_upload" => proc'[p].allocated # 0]_vars

\* a call went through every step: allocation of a new repository, rotation
\* to a second one, provider upload, insert, and the counter update
C31_Witness ==
  \E p \in Procs :
    LET l == proc[p]
    IN /\ l.op = "upload" /\ l.pc = "done" /\ l.result = "REPO_NOT_FOUND"
       /\ l.ret = "rotate" /\ l.pick = 0 /\ Cardinality(l.newRepos) = 2
       /\ l.uploadResult.assetId # 0 /\ l.fileId # 0

C33_ReadsAllReleases ==
  \A p \in Procs :
    LET l == proc[p]
    IN /\ (l.op \in {"sync", "validate"} /\ l.pc \in {"y_update", "v_update"})
            => l.delta = StoredMb(IF l.op = "sync" THEN l.repository.name
                                  ELSE l.list[l.idx].name)
       /\ (l.op = "sync" /\ l.pc = "done" /\ l.result = "ok" /\ l.wasUpdated)
            => repos[l.repoId].size_mb >= StoredMb(l.repository.name)

(* ------------------------------------------------------------------ *)
(* Termination of the probing of repository names                      *)
(* ------------------------------------------------------------------ *)
\* C34: with finitely many candidate names on the provider and every call
\* returning, createNewRepository ends: each probe either finds the name
\* taken and goes on to the next number, or finds it free and stops there,
\* and a request that is probing eventually leaves the probing and ends.
C34_ProbingTerminates ==
  /\ [][\A p \in Procs :
         (proc[p].pc = "c_exists" /\ proc'[p] # proc[p]) =>
           LET l == proc[p]
               exists == github_repositoryExists(
                           generateRepoName(l.user, l.bucketNumber))
           IN \/ /\ proc'[p].pc = "c_exists"
                 /\ exists
                 /\ proc'[p].bucketNumber = l.bucketNumber + 1
              \/ /\ proc'[p].pc = "c_create"
                 /\ ~exists
                 /\ proc'[p].bucketNumber = l.bucketNumber
              \/ /\ proc'[p].pc = "done"
                 /\ proc'[p].result = "GITHUB_API_ERROR"]_vars
  /\ \A p \in Procs :
       (proc[p].pc = "c_exists") ~> (proc[p].pc = "done")

\* a request without any repository record went past MaxNames taken names
\* and stopped at the first free one
C34_Witness ==
  \E p \in Procs :
    LET l == proc[p]
    IN /\ l.op = "create" /\ l.pc = "c_create"
       /\ l.bucketNumber = MaxNames + 1
       /\ repos = << >>
       /\ \A n \in 1..MaxNames :
            github_repositoryExists(generateRepoName(l.user, n))

(* ------------------------------------------------------------------ *)
(* Uniqueness of repository records                                    *)
(* ------------------------------------------------------------------ *)
\* C35: no two repository records share a name or a provider repository id,
\* every repository record names a repository the provider holds under that
\* name and id, and a record is inserted only for a repository the provider
\* had already created before the insert.
C35_UniqueRepositories ==
  /\ [](\A i, j \in DOMAIN repos :
          i # j => /\ repos[i].name # repos[j].name
                   /\ repos[i].github_repo_id # repos[j].github_repo_id)
  /\ [](\A i \in DOMAIN repos :
          [name |-> repos[i].name, id |-> repos[i].github_repo_id] \in ghRepos)
  /\ [][\A i \in DOMAIN repos' :
         i \notin DOMAIN repos =>
           [name |-> repos'[i].name, id |-> repos'[i].github_repo_id]
             \in ghRepos]_vars

\* an upload and an explicit create request of the same user ran at the same
\* time and each has inserted a repository record
C35_Witness ==
  \E p, q \in Procs :
    /\ proc[p].op = "upload" /\ proc[q].op = "create"
    /\ proc[p].user = proc[q].user
    /\ proc[p].newRepos # {} /\ proc[q].newRepos # {}
    /\ proc[p].pc # "done" /\ proc[q].pc = "done"

(* ------------------------------------------------------------------ *)
(* Ownership of File records                                           *)
(* ------------------------------------------------------------------ *)
\* C36: every File record refers to one repository record that exists, and
\* that repository record belongs to the user the File record belongs to.
C36_FileInOwnRepository ==
  \A f \in files :
    /\ f.repo_id \in DOMAIN repos
    /\ repos[f.repo_id].id = f.repo_id
    /\ repos[f.repo_id].user_id = f.user_id

\* a file was stored for a user while an older repository of another user
\* had room for it
C36_Witness ==
  \E f \in files, i \in DOMAIN repos :
    /\ repos[i].user_id # f.user_id
    /\ repos[i].is_active
    /\ repos[i].created_at < repos[f.repo_id].created_at
    /\ repos[i].size_mb + f.size_mb <= repos[i].max_size_mb

(* ------------------------------------------------------------------ *)
(* Errors of deleteFile                                                *)
(* ------------------------------------------------------------------ *)
\* C37: when a deleteFile call that has found the file's record (its first
\* lookup returned it) ends with an error, the record of that file is still
\* in the record store.
C37_ErrorKeepsRecord ==
  [][\A p \in Procs :
       LET l == proc[p]
       IN (/\ l.op = "delete" /\ l.item = 0
           /\ l.pc \notin {"d_get", "done"}
           /\ proc'[p].pc = "done"
           /\ proc'[p].result # "ok")
          => \E f \in files' : f.id = l.fileId /\ f.user_id = l.user]_vars

(* ------------------------------------------------------------------ *)
(* Two deleteFile calls for one file                                   *)
(* ------------------------------------------------------------------ *)
\* the call has deleted the record of its file (only then is repoId set)
HasDeleted(l) == l.op = "delete" /\ l.repoId # 0

\* C38: of two deleteFile calls that run at the same time for the same file
\* of the same user, at most one deletes the record and goes on to the
\* counter update, and the one that did not delete ends with not-found.
C38_OneDeleteWins ==
  \A p, q \in Procs :
    LET l == proc[p]
        m == proc[q]
    IN (/\ p # q /\ l.op = "delete" /\ m.op = "delete"
        /\ l.item = 0 /\ m.item = 0
        /\ l.fileId = m.fileId /\ l.user = m.user)
       => /\ ~(HasDeleted(l) /\ HasDeleted(m))
          /\ m.pc = "size" => HasDeleted(m)
          /\ (HasDeleted(l) /\ m.pc = "done")
               => m.result = "DATABASE_ERROR_404"

\* both calls found the record and its asset id; one deleted the record, the
\* other then found no row to delete
C38_Witness ==
  \E p, q \in Procs :
    LET l == proc[p]
        m == proc[q]
    IN /\ p # q /\ l.op = "delete" /\ m.op = "delete"
       /\ l.fileId = m.fileId /\ l.user = m.user
       /\ HasDeleted(l)
       /\ m.uploadResult.assetId # 0
       /\ m.pc = "done" /\ m.result = "DATABASE_ERROR_404"

(* ------------------------------------------------------------------ *)
(* Routing of the batch delete                                         *)
(* ------------------------------------------------------------------ *)
\* C39: a DELETE request for /batch is handled by the batch handler: it runs
\* as deleteMultipleFiles, never as a deleteFile call, and with no file ids
\* or more than 50 of them it ends at once with VALIDATION_ERROR.
C39_BatchReachesBatchHandler ==
  \A p \in Procs :
    LET l == proc[p]
    IN (l.pc # "idle" /\ l.path = BatchPath)
       => /\ l.op = "deleteMultiple"
          /\ (Len(l.batch) = 0 \/ Len(l.batch) > MAX_BATCH_DELETE)
               => l.pc = "done" /\ l.result = "VALIDATION_ERROR"

====
